---- MODULE Spec2Model ----
(***************************************************************************)
(* mcplcwatch: the MC-protocol session (mcplcwatch/client.py) and the      *)
(* polling monitor (mcplcwatch/monitor.py).                                *)
(*                                                                         *)
(* Spec        the session PlcClient used by one thread: construction,     *)
(*             _send_and_receive split at its blocking points (connect,    *)
(*             sendall, recv), close.                                      *)
(* SharedSpec  the same session shared by two threads (the monitor worker  *)
(*             and a caller), as PlcMonitor and the examples use it.       *)
(* MonSpec     the monitor PlcMonitor: the caller's add/remove/clear/      *)
(*             start/stop and the worker threads running _monitor_loop.    *)
(* FrameSpec   the session with every method and the frames it builds.     *)
(* ConfigSpec  the session constructed with other options than the         *)
(*             defaults.                                                   *)
(* LifeSpec    the same steps with several workers over one point target.  *)
(* CallSpec    the monitor with the user's callbacks as intervals.         *)
(* BufferSpec  reads of up to the largest counts, answered in full.         *)
(* ListSpec    the caller's additions and removals of targets.             *)
(* CycleSpec   the worker's cycles while the caller changes the lists,     *)
(*             with the history of each cycle recorded.                    *)
(* ValueSpec   the reads of one target by the caller and a worker, with    *)
(*             the history of the values read recorded.                    *)
(***************************************************************************)
EXTENDS Integers, Sequences, FiniteSets, TLC

VARIABLES
    \* ---- PlcClient (client.py) ----
    phase,          \* "new" before __init__ ran, "live" after it returned, "failed" if it raised
    frame_type,     \* self.frame_type
    network_no,     \* self.network_no
    pc_no,          \* self.pc_no
    unit_io,        \* self.unit_io
    unit_station,   \* self.unit_station
    endpoint,       \* <<self.host, self.port>>
    timeout,        \* self.timeout
    auto_reconnect, \* self.auto_reconnect
    sock,           \* self.sock: 0 is None, n > 0 is the n-th socket object created
    sockUp,         \* whether the socket object self.sock is connected to the PLC
    sockOpt,        \* the timeout set on self.sock and the address given to its connect()
    connected,      \* self.connected
    nSock,          \* socket objects created so far (history)
    wire,           \* the threads whose frames were sent on self.sock and not yet answered
    pc,             \* per thread: position inside _send_and_receive
    cur,            \* per thread: record of the operation it runs
    result,         \* per thread: how its last finished operation ended
    nOps,           \* operations begun so far (history, bounded by MaxOps)
    closed,         \* history: a user called close(), and nSock at that moment
    lastRx,         \* history: the last response a recv() returned, the length of what
                    \* the PLC had sent, and what became of it
    \* ---- PlcMonitor (monitor.py) ----
    objs,           \* the DeviceMonitor / DeviceGroupMonitor objects created, by identity
    monitors,       \* self.monitors: the list of DeviceMonitor objects (identities)
    group_monitors, \* self.group_monitors: the list of DeviceGroupMonitor objects
    interval,       \* self.interval
    running,        \* self.running
    thread,         \* self.thread: 0 is None, n > 0 the n-th thread created
    workers,        \* the threads created, each with its position in _monitor_loop
    caller,         \* the caller thread: its position inside add_device/add_devices/stop
    ev,             \* history: the last read a thread processed and the callbacks it made
    stopped,        \* history: stop() has returned and start() was not called since
    trace           \* the history the specification records beyond ev: "cycles" for
                    \* that of a worker's cycle, "values" for that of a target's
                    \* reads, "off" for none; fixed by the initial predicate

\* what no step changes: the options given at construction, and trace
config == <<frame_type, network_no, pc_no, unit_io, unit_station, endpoint, timeout,
           auto_reconnect, trace>>
svars == <<phase, config, sock, sockUp, sockOpt, connected, nSock, wire, pc, cur,
           result, nOps, closed, lastRx>>
mvars == <<objs, monitors, group_monitors, interval, running, thread, workers,
           caller, ev, stopped>>
vars == <<svars, mvars>>

(***************************************************************************)
(* Bounds of the model.                                                    *)
(***************************************************************************)
MaxOps == 3         \* session operations begun in one behaviour

Threads == {"worker", "caller"}
FrameTypes == {"3E", "4E"}

Min(a, b) == IF a < b THEN a ELSE b
Max(a, b) == IF a > b THEN a ELSE b

(***************************************************************************)
(* Bytes.  A bytes object is a sequence of 0..255; Python offsets are      *)
(* 0-based.                                                                *)
(***************************************************************************)
\* response[a:b]
Slice(s, a, b) == SubSeq(s, a + 1, Min(b, Len(s)))

\* int.from_bytes(bs, byteorder='little')
RECURSIVE IntFromBytes(_)
IntFromBytes(bs) ==
    IF bs = <<>> THEN 0 ELSE Head(bs) + 256 * IntFromBytes(Tail(bs))

HexDigits == <<"0", "1", "2", "3", "4", "5", "6", "7",
               "8", "9", "A", "B", "C", "D", "E", "F">>

\* format(n, 'X'): the upper-case hex digits of n, no leading zero
RECURSIVE HexUpper(_)
HexUpper(n) ==
    IF n < 16 THEN <<HexDigits[n + 1]>>
    ELSE Append(HexUpper(n \div 16), HexDigits[(n % 16) + 1])

\* f"{n:04X}": padded with zeros on the left to at least 4 digits
Format04X(n) ==
    LET d == HexUpper(n)
    IN  [i \in 1..(Max(4, Len(d)) - Len(d)) |-> "0"] \o d

\* str(n) for n >= 0, as a sequence of digit characters
RECURSIVE DecStr(_)
DecStr(n) ==
    IF n < 10 THEN <<HexDigits[n + 1]>>
    ELSE Append(DecStr(n \div 10), HexDigits[(n % 10) + 1])

(***************************************************************************)
(* MCProtocol (protocol.py): device tables and parse_read_response.        *)
(***************************************************************************)
BIT_DEVICES == {"X", "Y", "M", "B", "SM", "TS", "TC", "SS", "SC", "CS", "CC"}
WORD_DEVICES == {"D", "W", "SD", "TN", "SN", "CN", "R", "ZR"}
DEVICE_CODES ==
    [d \in BIT_DEVICES \cup WORD_DEVICES |->
        CASE d = "D" -> 168 [] d = "W" -> 180 [] d = "M" -> 144 [] d = "X" -> 156
          [] d = "Y" -> 157 [] d = "B" -> 160 [] d = "SM" -> 145 [] d = "SD" -> 169
          [] d = "TS" -> 193 [] d = "TC" -> 192 [] d = "TN" -> 194 [] d = "SS" -> 199
          [] d = "SC" -> 198 [] d = "SN" -> 200 [] d = "CS" -> 196 [] d = "CC" -> 195
          [] d = "CN" -> 197 [] d = "R" -> 175 [] d = "ZR" -> 176]

\* PlcClient.is_bit_device
is_bit_device(device_type) == device_type \in BIT_DEVICES

\* parse_read_response: where the data starts
data_start_index(ft) == IF ft = "3E" THEN 11 ELSE 15

\* parse_read_response, bit branch: for i in range(start, start + element):
\* data.append(response[i] != 0); response[i] raises IndexError past the end.
\* The loop is taken as a whole: it raises if one of its indices is past the
\* end, and appends one value per index otherwise.
ParseBits(response, i, stop, data) ==
    LET n == IF stop > i THEN stop - i ELSE 0
    IN  IF \E k \in 1..n : i + (k - 1) >= Len(response)
        THEN [kind |-> "IndexError", data |-> <<>>]
        ELSE [kind |-> "ok", data |-> data \o [k \in 1..n |-> response[i + k] # 0]]

\* mutant: the first byte of a word is taken as its high byte
ParseWords_BigEndian(response, i, stop, data) ==
    LET n == IF stop > i THEN (stop - i + 1) \div 2 ELSE 0
    IN  IF \E k \in 1..n : i + (2 * (k - 1)) + 1 >= Len(response)
        THEN [kind |-> "ValueError", data |-> <<>>]
        ELSE [kind |-> "ok",
              data |-> data \o [k \in 1..n |-> (256 * response[i + (2 * k) - 1])
                                                  + response[i + (2 * k)]]]

\* parse_read_response, word branch: for i in range(start, start + element*2, 2):
\* response[i] | (response[i+1] << 8) if i + 1 < len(response), else ValueError
ParseWords(response, i, stop, data) ==
    LET n == IF stop > i THEN (stop - i + 1) \div 2 ELSE 0
    IN  IF \E k \in 1..n : i + (2 * (k - 1)) + 1 >= Len(response)
        THEN [kind |-> "ValueError", data |-> <<>>]
        ELSE [kind |-> "ok",
              data |-> data \o [k \in 1..n |-> response[i + (2 * k) - 1]
                                                  + (256 * response[i + (2 * k)])]]

\* mutant: the loop ends after the first element
parse_read_response_FirstOnly(response, element, is_bit, ft) ==
    IF is_bit
    THEN ParseBits(response, data_start_index(ft),
                   data_start_index(ft) + Min(element, 1), <<>>)
    ELSE ParseWords(response, data_start_index(ft),
                    data_start_index(ft) + (2 * Min(element, 1)), <<>>)

parse_read_response(response, element, is_bit, ft) ==
    IF is_bit
    THEN ParseBits(response, data_start_index(ft), data_start_index(ft) + element, <<>>)
    ELSE ParseWords(response, data_start_index(ft), data_start_index(ft) + element * 2, <<>>)

(***************************************************************************)
(* MCProtocol (protocol.py): the request frames.  A frame is built as a    *)
(* list of integers and converted by bytes(frame), which raises ValueError *)
(* if an element is outside 0..255.  A text is a sequence of characters.   *)
(***************************************************************************)
HexChars == <<"0", "1", "2", "3", "4", "5", "6", "7",
              "8", "9", "a", "b", "c", "d", "e", "f">>

\* hex(value)[2:]: hex() gives "0x.." for value >= 0 and "-0x.." below 0
RECURSIVE hex_digits(_)
hex_digits(n) ==
    IF n < 16 THEN <<HexChars[n + 1]>>
    ELSE Append(hex_digits(n \div 16), HexChars[(n % 16) + 1])
hex_tail(value) == IF value >= 0 THEN hex_digits(value) ELSE <<"x">> \o hex_digits(-value)

zero_padding(value, length) ==
    IF Len(value) >= length THEN value
    ELSE LET padded == [i \in 1..length |-> "0"] \o value
         IN  SubSeq(padded, Len(padded) - length + 1, Len(padded))

\* int(text, 16) for a text of hex digits; any other text (the empty one, one
\* that holds the "x" left from a negative number) raises ValueError, which
\* is -1 here: bytes(frame) raises the same error for it
RECURSIVE IntBase16(_, _)
IntBase16(text, acc) ==
    IF text = <<>> THEN acc
    ELSE IF \E d \in 1..16 : HexChars[d] = Head(text)
    THEN IntBase16(Tail(text), (acc * 16) + (CHOOSE d \in 1..16 : HexChars[d] = Head(text)) - 1)
    ELSE -1
int16(text) == IF text = <<>> THEN -1 ELSE IntBase16(text, 0)

device_number_to_bytes(device_number) ==
    LET device_number_hex == zero_padding(hex_tail(device_number), 6)
    IN  <<int16(Slice(device_number_hex, 4, Len(device_number_hex))),
          int16(Slice(device_number_hex, 2, 4)),
          int16(Slice(device_number_hex, 0, 2))>>

element_to_bytes(element) ==
    LET element_hex == zero_padding(hex_tail(element), 4)
    IN  <<int16(Slice(element_hex, 2, Len(element_hex))),
          int16(Slice(element_hex, 0, 2))>>

SUBHEADER(ft) == IF ft = "3E" THEN <<80, 0>> ELSE <<84, 0>>
CMD_BATCH_READ_WORD == <<1, 4>>
CMD_BATCH_WRITE_WORD == <<1, 20>>
CMD_BATCH_READ_BIT == <<1, 4>>
CMD_BATCH_WRITE_BIT == <<1, 20>>
SUBCMD == <<0, 0>>
TIMER == <<32, 0>>

\* mutant: the frame carries the default route whatever the session's is
AccessRoute_Defaults(ft, rt) ==
    IF ft = "3E"
    THEN SUBHEADER(ft) \o <<0, 255, 255, 3, 0, 0, 0>>
    ELSE SUBHEADER(ft) \o <<0, 0, 0, 0, 0, 255, 255, 255, 255, 3, 0>>

\* the sub-header and the access route, with the length still 00 00; rt holds
\* network_no, pc_no, unit_io and unit_station
AccessRoute(ft, rt) ==
    IF ft = "3E"
    THEN SUBHEADER(ft) \o <<rt.network_no, rt.pc_no,
                            rt.unit_io % 256, (rt.unit_io \div 256) % 256,
                            rt.unit_station, 0, 0>>
    ELSE SUBHEADER(ft) \o <<0, 0, 0, 0, rt.network_no, rt.pc_no, 255, 255,
                            rt.unit_io % 256, (rt.unit_io \div 256) % 256,
                            rt.unit_station>>

\* where the builders write the request data length, and from where they count
data_length_index(ft) == IF ft = "3E" THEN 7 ELSE 3
request_data_start(ft) == IF ft = "3E" THEN 9 ELSE 11

\* mutant: the length counts from the start of the frame
SetDataLength_WholeFrame(frame, ft) ==
    LET data_length == zero_padding(hex_tail(Len(frame)), 4)
    IN  [frame EXCEPT
           ![data_length_index(ft) + 1] = int16(Slice(data_length, 2, Len(data_length))),
           ![data_length_index(ft) + 2] = int16(Slice(data_length, 0, 2))]

\* data_length = zero_padding(hex(len(frame[data_start_index:]))[2:], 4) and
\* the two assignments into the frame
SetDataLength(frame, ft) ==
    LET data_length == zero_padding(hex_tail(Max(0, Len(frame) - request_data_start(ft))), 4)
    IN  [frame EXCEPT
           ![data_length_index(ft) + 1] = int16(Slice(data_length, 2, Len(data_length))),
           ![data_length_index(ft) + 2] = int16(Slice(data_length, 0, 2))]

\* bytes(frame)
to_bytes(frame) ==
    IF \A i \in 1..Len(frame) : frame[i] \in 0..255
    THEN [exc |-> "ok", frame |-> frame]
    ELSE [exc |-> "ValueError", frame |-> <<>>]

\* mutant: the count is written before the device code
ReadRequest_CountFirst(device_type, device_number, element, is_bit) ==
    TIMER \o (IF is_bit THEN CMD_BATCH_READ_BIT ELSE CMD_BATCH_READ_WORD) \o SUBCMD
    \o device_number_to_bytes(device_number)
    \o element_to_bytes(element) \o <<DEVICE_CODES[device_type]>>

\* the monitoring timer and the request data of a read
ReadRequest(device_type, device_number, element, is_bit) ==
    TIMER \o (IF is_bit THEN CMD_BATCH_READ_BIT ELSE CMD_BATCH_READ_WORD) \o SUBCMD
    \o device_number_to_bytes(device_number)
    \o <<DEVICE_CODES[device_type]>> \o element_to_bytes(element)

create_read_frame(device_type, device_number, element, is_bit, ft, rt) ==
    IF device_type \notin DOMAIN DEVICE_CODES
    THEN [exc |-> "ValueError", frame |-> <<>>]
    ELSE to_bytes(SetDataLength(
             AccessRoute(ft, rt) \o ReadRequest(device_type, device_number, element, is_bit),
             ft))

\* the payload of a write: one byte per bit, two bytes per word
BitPayload(values) == [i \in 1..Len(values) |-> IF values[i] # 0 THEN 1 ELSE 0]
\* mutant: the high byte of a word is written first
WordBytesOf_HighFirst(value) ==
    LET value_hex == zero_padding(hex_tail(value), 4)
    IN  <<int16(Slice(value_hex, 0, 2)), int16(Slice(value_hex, 2, Len(value_hex)))>>

WordBytesOf(value) ==
    LET value_hex == zero_padding(hex_tail(value), 4)
    IN  <<int16(Slice(value_hex, 2, Len(value_hex))), int16(Slice(value_hex, 0, 2))>>
WordPayload(values) ==
    LET pairs == [k \in 1..Len(values) |-> WordBytesOf(values[k])]
    IN  [i \in 1..(2 * Len(values)) |-> pairs[(i + 1) \div 2][2 - (i % 2)]]

create_write_frame(device_type, device_number, values, is_bit, ft, rt) ==
    IF device_type \notin DOMAIN DEVICE_CODES
    THEN [exc |-> "ValueError", frame |-> <<>>]
    ELSE to_bytes(SetDataLength(
             AccessRoute(ft, rt) \o TIMER
             \o (IF is_bit THEN CMD_BATCH_WRITE_BIT ELSE CMD_BATCH_WRITE_WORD) \o SUBCMD
             \o device_number_to_bytes(device_number)
             \o <<DEVICE_CODES[device_type]>> \o element_to_bytes(Len(values))
             \o (IF is_bit THEN BitPayload(values) ELSE WordPayload(values)),
             ft))

\* string_value.encode('utf-8'): a string is a sequence of code points (no
\* surrogates)
utf8_char(cp) ==
    IF cp < 128 THEN <<cp>>
    ELSE IF cp < 2048 THEN <<192 + (cp \div 64), 128 + (cp % 64)>>
    ELSE IF cp < 65536
    THEN <<224 + (cp \div 4096), 128 + ((cp \div 64) % 64), 128 + (cp % 64)>>
    ELSE <<240 + (cp \div 262144), 128 + ((cp \div 4096) % 64),
           128 + ((cp \div 64) % 64), 128 + (cp % 64)>>
RECURSIVE encode_utf8(_)
encode_utf8(string_value) ==
    IF string_value = <<>> THEN <<>>
    ELSE utf8_char(Head(string_value)) \o encode_utf8(Tail(string_value))

\* mutant: an even number of bytes gets no terminator
PaddedString_OddOnly(str_bytes) ==
    IF Len(str_bytes) % 2 = 1
    THEN [bytes |-> str_bytes \o <<0>>, device_count |-> (Len(str_bytes) + 1) \div 2]
    ELSE [bytes |-> str_bytes, device_count |-> (Len(str_bytes) + 1) \div 2]

\* device_count = (str_length + 1) // 2, then the terminator: one zero byte
\* after an odd number of bytes, two and one more word after an even number
PaddedString(str_bytes) ==
    IF Len(str_bytes) % 2 = 1
    THEN [bytes |-> str_bytes \o <<0>>, device_count |-> (Len(str_bytes) + 1) \div 2]
    ELSE [bytes |-> str_bytes \o <<0, 0>>, device_count |-> ((Len(str_bytes) + 1) \div 2) + 1]

\* for i in range(0, len(str_bytes), 2): the byte at i, then the byte at
\* i + 1 or 0 if there is none
RECURSIVE StringPairs(_, _)
StringPairs(str_bytes, i) ==
    IF i >= Len(str_bytes) THEN <<>>
    ELSE <<str_bytes[i + 1], IF i + 1 < Len(str_bytes) THEN str_bytes[i + 2] ELSE 0>>
         \o StringPairs(str_bytes, i + 2)

create_write_string_frame(device_type, device_number, string_value, ft, rt) ==
    IF device_type \notin WORD_DEVICES
    THEN [exc |-> "ValueError", frame |-> <<>>]
    ELSE LET padded == PaddedString(encode_utf8(string_value))
         IN  to_bytes(SetDataLength(
                 AccessRoute(ft, rt) \o TIMER \o CMD_BATCH_WRITE_WORD \o SUBCMD
                 \o device_number_to_bytes(device_number)
                 \o <<DEVICE_CODES[device_type]>>
                 \o element_to_bytes(padded.device_count)
                 \o StringPairs(padded.bytes, 0),
                 ft))

\* bytes(...).decode('utf-8'): the strict decoder.  A lead byte 00..7F is one
\* code point; C2..DF takes one continuation byte, E0..EF two, F0..F4 three;
\* a continuation byte is 80..BF, narrowed after E0 (no overlong form), ED
\* (no surrogate), F0 (no overlong form) and F4 (nothing above U+10FFFF);
\* every other byte raises UnicodeDecodeError
utf8_need(b) ==
    IF b < 128 THEN 0
    ELSE IF b >= 194 /\ b <= 223 THEN 1
    ELSE IF b >= 224 /\ b <= 239 THEN 2
    ELSE IF b >= 240 /\ b <= 244 THEN 3
    ELSE -1
utf8_second_ok(b, c) ==
    IF b = 224 THEN c >= 160 /\ c <= 191
    ELSE IF b = 237 THEN c >= 128 /\ c <= 159
    ELSE IF b = 240 THEN c >= 144 /\ c <= 191
    ELSE IF b = 244 THEN c >= 128 /\ c <= 143
    ELSE c >= 128 /\ c <= 191
utf8_lead_bits(b) ==
    IF b < 128 THEN b
    ELSE IF b <= 223 THEN b - 192
    ELSE IF b <= 239 THEN b - 224
    ELSE b - 240
RECURSIVE utf8_tail_bits(_, _, _, _)
utf8_tail_bits(byte_data, i, n, acc) ==
    IF n = 0 THEN acc
    ELSE utf8_tail_bits(byte_data, i + 1, n - 1, (acc * 64) + (byte_data[i] - 128))
RECURSIVE decode_utf8(_, _, _)
decode_utf8(byte_data, i, text) ==
    IF i > Len(byte_data) THEN [kind |-> "ok", text |-> text]
    ELSE LET b == byte_data[i]
             n == utf8_need(b)
         IN  IF n < 0 \/ i + n > Len(byte_data)
             THEN [kind |-> "UnicodeDecodeError", text |-> <<>>]
             ELSE IF n >= 1 /\ ~utf8_second_ok(b, byte_data[i + 1])
             THEN [kind |-> "UnicodeDecodeError", text |-> <<>>]
             ELSE IF \E k \in 2..n : byte_data[i + k] < 128 \/ byte_data[i + k] > 191
             THEN [kind |-> "UnicodeDecodeError", text |-> <<>>]
             ELSE decode_utf8(byte_data, i + n + 1,
                      Append(text, utf8_tail_bits(byte_data, i + 1, n, utf8_lead_bits(b))))

\* byte_data of parse_string_data: word & 0xFF, then (word >> 8) & 0xFF
WordsToBytes(word_data) ==
    [i \in 1..(2 * Len(word_data)) |->
        IF i % 2 = 1 THEN word_data[(i + 1) \div 2] % 256
        ELSE (word_data[i \div 2] \div 256) % 256]

\* null_pos = byte_data.index(0) if 0 in byte_data else len(byte_data)
null_pos(byte_data) ==
    IF \E i \in 1..Len(byte_data) : byte_data[i] = 0
    THEN (CHOOSE i \in 1..Len(byte_data) :
              byte_data[i] = 0 /\ \A j \in 1..(i - 1) : byte_data[j] # 0) - 1
    ELSE Len(byte_data)

\* mutant: the high byte of each word comes first
parse_string_data_HighFirst(word_data) ==
    LET byte_data == [i \in 1..(2 * Len(word_data)) |->
                         IF i % 2 = 1 THEN (word_data[(i + 1) \div 2] \div 256) % 256
                         ELSE word_data[i \div 2] % 256]
    IN  decode_utf8(SubSeq(byte_data, 1, null_pos(byte_data)), 1, <<>>)

parse_string_data(word_data) ==
    LET byte_data == WordsToBytes(word_data)
    IN  decode_utf8(SubSeq(byte_data, 1, null_pos(byte_data)), 1, <<>>)

(***************************************************************************)
(* PlcClient._send_and_receive: the check of a received response.          *)
(***************************************************************************)
min_response_length(ft) == IF ft = "3E" THEN 11 ELSE 15
\* mutant: the 3E offset used for both framings
end_code_offset_3E_only(ft) == IF ft = "3E" THEN 9 ELSE 9
end_code_offset(ft) == IF ft = "3E" THEN 9 ELSE 11

VendorCodes == {49232, 49233, 49234, 49236, 49238, 49241, 49243, 49244, 49259}
error_messages ==
    [c \in VendorCodes |->
        CASE c = 49232 -> "Read/write request to unsupported device"
          [] c = 49233 -> "Read/write request with unsupported number of points"
          [] c = 49234 -> "Read/write request to word device with bit specification"
          [] c = 49236 -> "Read/write request with invalid specification of device"
          [] c = 49238 -> "Read/write request with device out of range"
          [] c = 49241 -> "Read/write request with invalid specification of data count"
          [] c = 49243 -> "Read/write request with invalid specification of stored data"
          [] c = 49244 -> "Read/write request with invalid specification of block"
          [] c = 49259 -> "Request when CPU is in RUN mode and writing is disabled"]

\* error_messages.get(end_code, f"Unknown error code: 0x{end_code:04X}")
error_msg(end_code) ==
    IF end_code \in DOMAIN error_messages
    THEN <<error_messages[end_code]>>
    ELSE <<"Unknown error code: ", "0x">> \o Format04X(end_code)

\* int.from_bytes(response[off:off+2], byteorder='little')
end_code_of(response, ft) ==
    IntFromBytes(Slice(response, end_code_offset(ft), end_code_offset(ft) + 2))

\* A message is the sequence of the pieces the f-string puts together.
CheckResponse(response, ft) ==
    IF Len(response) < min_response_length(ft)
    THEN [exc |-> "PlcCommunicationError", why |-> "short",
          msg |-> <<"Response too short: ">> \o DecStr(Len(response)) \o <<" bytes">>]
    ELSE IF end_code_of(response, ft) # 0
    THEN [exc |-> "PlcCommunicationError", why |-> "endcode",
          msg |-> <<"PLC returned error: ">> \o error_msg(end_code_of(response, ft))
                  \o <<" (", "0x">> \o Format04X(end_code_of(response, ft)) \o <<")">>]
    ELSE [exc |-> "ok", why |-> "ok", msg |-> <<>>]

(***************************************************************************)
(* The PLC side of the connection: the byte strings one recv() may return. *)
(* A response is laid out for one framing (end code at offset 9 for 3E,    *)
(* at 11 for 4E, the payload at 11 or 15) whatever the session's framing   *)
(* is, or is cut short.                                                    *)
(***************************************************************************)
RespCodes == {0, 256, 192} \cup VendorCodes
Payloads == {<<>>, <<1>>, <<7, 1>>, <<0, 1, 1, 0>>}

ShapedResponse(shape, code, payload) ==
    [i \in 1..end_code_offset(shape) |-> 0]
        \o <<code % 256, code \div 256>>
        \o [i \in 1..(data_start_index(shape) - end_code_offset(shape) - 2) |-> 0]
        \o payload

Responses ==
    {<<>>}
    \cup {ShapedResponse(sh, c, <<>>) : sh \in FrameTypes, c \in RespCodes}
    \cup {ShapedResponse(sh, 0, p) : sh \in FrameTypes, p \in Payloads}
    \cup {SubSeq(ShapedResponse(sh, 0, <<>>), 1, min_response_length(sh) - 1) :
              sh \in FrameTypes}

(***************************************************************************)
(* PlcClient: state changes of connect() and close().                      *)
(***************************************************************************)
\* no socket object
NoSockOpt == [timeout |-> 0, peer |-> <<>>]

\* mutant: connect() that leaves the new socket blocking
connect_no_settimeout(ok) ==
    /\ sock' = nSock + 1
    /\ nSock' = nSock + 1
    /\ sockUp' = ok
    /\ sockOpt' = [timeout |-> 0, peer |-> endpoint]
    /\ connected' = ok
    /\ wire' = <<>>

\* connect(): closes self.sock if there is one, creates a socket, sets its
\* timeout and connects it to (self.host, self.port); ok is whether
\* sock.connect() succeeded (it raises socket.error if not)
connect(ok) ==
    /\ sock' = nSock + 1
    /\ nSock' = nSock + 1
    /\ sockUp' = ok
    /\ sockOpt' = [timeout |-> timeout, peer |-> endpoint]
    /\ connected' = ok
    /\ wire' = <<>>

\* mutant: close() that forgets the connected flag
close_keeps_connected ==
    /\ sock' = 0
    /\ sockUp' = FALSE
    /\ sockOpt' = NoSockOpt
    /\ connected' = connected
    /\ wire' = <<>>

\* close()
\* mutant: close() that keeps the socket object in self.sock
close_keeps_sock ==
    /\ sock' = sock
    /\ sockUp' = FALSE
    /\ sockOpt' = NoSockOpt
    /\ connected' = FALSE
    /\ wire' = <<>>

close ==
    /\ sock' = 0
    /\ sockUp' = FALSE
    /\ sockOpt' = NoSockOpt
    /\ connected' = FALSE
    /\ wire' = <<>>

\* what the except clauses of _send_and_receive do to self.connected, by the
\* exception raised inside the try block
\* mutant: the flag is reset for socket.error only
ConnectedAfter_ErrorOnly(raised) ==
    IF raised = "socket.error" THEN FALSE ELSE connected

\* mutant: the flag is reset for every exception raised inside the try block
ConnectedAfter_AnyError(raised) ==
    IF raised # "ok" THEN FALSE ELSE connected

\* exception raised inside the try block: raised is "socket.timeout",
\* "socket.error", or another exception (PlcCommunicationError is no socket.error)
ConnectedAfter(raised) ==
    IF raised = "socket.timeout" \/ raised = "socket.error"
    THEN FALSE
    ELSE connected

\* the exception the except clauses raise for one caught inside the try block
Reraised(raised) ==
    IF raised = "socket.timeout" THEN "PlcTimeoutError" ELSE "PlcCommunicationError"

\* error.py: the base class of each exception class, and isinstance(): what
\* an except clause naming cls catches
BaseOf(cls) ==
    CASE cls = "PlcError" -> "Exception"
      [] cls = "PlcCommunicationError" -> "PlcError"
      [] cls = "PlcDeviceError" -> "PlcError"
      [] cls = "PlcTimeoutError" -> "PlcError"
      [] OTHER -> "Exception"
RECURSIVE IsInstance(_, _)
IsInstance(exc, cls) ==
    \/ exc = cls
    \/ exc # "Exception" /\ IsInstance(BaseOf(exc), cls)

\* An operation in progress: newerThan is the number of sockets that existed
\* when it began if the session was then not connected (0 if it was), sentOn
\* the socket its frame went out on.
\* A call of an operation of PlcClient: op is "read" for read_devices and
\* "write" for write_devices, or the name of the method; a string_value is a
\* sequence of code points.
NoCall == [op |-> "none", device_type |-> "D", device_number |-> 0, count |-> 0,
           values |-> <<>>, string_value |-> <<>>, max_length |-> 0]
NoOp == [op |-> "none", device_type |-> "D", count |-> 0,
         newerThan |-> 0, afterClose |-> FALSE, sentOn |-> 0,
         call |-> NoCall, frame |-> <<>>]
NoResult == [exc |-> "none", why |-> "none"]
NoRx == [thr |-> "none", answers |-> "none", sent |-> 0, resp |-> <<>>,
         out |-> [exc |-> "none", why |-> "none", msg |-> <<>>], res |-> "none",
         data |-> <<>>]

Finish(t, exc, why) ==
    /\ pc' = [pc EXCEPT ![t] = "idle"]
    /\ cur' = [cur EXCEPT ![t] = NoOp]
    /\ result' = [result EXCEPT ![t] = [exc |-> exc, why |-> why]]

\* PlcMonitor.__init__ (auto_start false)
NoEvent == [op |-> "none", thr |-> 0, obj |-> 0, old |-> [some |-> FALSE, v |-> 0],
            new |-> 0, calls |-> <<>>, ret |-> "none"]
MonitorFreshWith(tr) ==
    /\ objs = <<>>
    /\ monitors = <<>>
    /\ group_monitors = <<>>
    /\ interval = 1
    /\ running = FALSE
    /\ thread = 0
    /\ workers = <<>>
    /\ caller = [pc |-> "idle", obj |-> 0]
    /\ ev = NoEvent
    /\ stopped = FALSE
    /\ trace = tr
MonitorFresh == MonitorFreshWith("off")

SessionFresh ==
    /\ sock = 0
    /\ sockUp = FALSE
    /\ sockOpt = NoSockOpt
    /\ connected = FALSE
    /\ nSock = 0
    /\ wire = <<>>
    /\ pc = [t \in Threads |-> "idle"]
    /\ cur = [t \in Threads |-> NoOp]
    /\ result = [t \in Threads |-> NoResult]
    /\ nOps = 0
    /\ closed = [called |-> FALSE, nSock |-> 0]
    /\ lastRx = NoRx

\* the defaults of PlcClient.__init__
DefaultRoute ==
    /\ network_no = 0
    /\ pc_no = 255
    /\ unit_io = 1023
    /\ unit_station = 0

\* the address the tests construct the session with, and the defaults of
\* timeout and auto_reconnect
Endpoint == <<"192.168.0.1", 5000>>
DefaultOptions ==
    /\ endpoint = Endpoint
    /\ timeout = 1
    /\ auto_reconnect = TRUE

Init ==
    /\ phase = "new"
    /\ frame_type \in FrameTypes
    /\ DefaultRoute
    /\ DefaultOptions
    /\ SessionFresh
    /\ MonitorFresh

\* PlcClient.__init__: sets the fields and calls connect()
Construct(ok) ==
    /\ phase = "new"
    /\ connect(ok)
    /\ phase' = IF ok THEN "live" ELSE "failed"
    /\ result' = IF ok THEN result
                 ELSE [result EXCEPT !["caller"] =
                          [exc |-> "PlcCommunicationError", why |-> "connect"]]
    /\ UNCHANGED <<config, pc, cur, nOps, closed, lastRx, mvars>>

IsRead(op) == op \in {"read", "read_string", "read_bits", "read_words"}

\* mutant: every operation only checks that the class is in DEVICE_CODES
DeviceCheck_KnownOnly(o) == o.device_type \in DOMAIN DEVICE_CODES

\* The checks of the device class that pass before anything else is done:
\* the method's own check, then the check of read_devices / write_devices
\* if the method calls one of them.
DeviceCheck(o) ==
    /\ o.op \in {"read_string", "write_string", "read_words", "write_words"}
          => o.device_type \in WORD_DEVICES
    /\ o.op \in {"read_bits", "write_bits"} => o.device_type \in BIT_DEVICES
    /\ o.op # "write_string" => o.device_type \in DOMAIN DEVICE_CODES

\* mutant: the word count of read_string without the rounding up
Element_RoundedDown(o) == IF o.op = "read_string" THEN (o.max_length * 3) \div 2 ELSE o.count

\* the element count of the read an operation makes
Element(o) == IF o.op = "read_string" THEN (o.max_length * 3 + 1) \div 2 ELSE o.count

\* values = [bool(v) for v in values]
Bools(values) == [i \in DOMAIN values |-> IF values[i] # 0 THEN 1 ELSE 0]

\* the frame an operation builds from its arguments and the session's fields
BuildFrame(o) ==
    LET rt == [network_no |-> network_no, pc_no |-> pc_no, unit_io |-> unit_io,
               unit_station |-> unit_station]
        is_bit == is_bit_device(o.device_type)
    IN  IF IsRead(o.op)
        THEN create_read_frame(o.device_type, o.device_number, Element(o), is_bit,
                               frame_type, rt)
        ELSE IF o.op = "write_string"
        THEN create_write_string_frame(o.device_type, o.device_number, o.string_value,
                                       frame_type, rt)
        ELSE create_write_frame(o.device_type, o.device_number,
                                IF is_bit THEN Bools(o.values) ELSE o.values,
                                is_bit, frame_type, rt)

\* an operation of PlcClient up to the call of _send_and_receive: the checks
\* of the device class and the frame
Begin(t, o) ==
    /\ phase = "live"
    /\ pc[t] = "idle"
    /\ nOps < MaxOps
    /\ nOps' = nOps + 1
    /\ IF ~DeviceCheck(o)
       THEN Finish(t, "PlcDeviceError", "device")
       ELSE LET built == BuildFrame(o) IN
            IF built.exc # "ok"
       THEN Finish(t, built.exc, "frame")
       ELSE /\ pc' = [pc EXCEPT ![t] = "entry"]
            /\ cur' = [cur EXCEPT ![t] =
                 [op |-> IF IsRead(o.op) THEN "read" ELSE "write",
                  device_type |-> o.device_type,
                  count |-> IF IsRead(o.op) THEN Element(o) ELSE o.count,
                  newerThan |-> IF connected THEN 0 ELSE nSock,
                  afterClose |-> closed.called, sentOn |-> 0,
                  call |-> o, frame |-> built.frame]]
            /\ UNCHANGED result
    /\ UNCHANGED <<phase, config, sock, sockUp, sockOpt, connected, nSock, wire,
                   closed, lastRx, mvars>>

\* _send_and_receive: if not self.connected: self.connect()
Entry(t) ==
    /\ pc[t] = "entry"
    /\ pc' = [pc EXCEPT ![t] = IF connected THEN "send" ELSE "connect"]
    /\ UNCHANGED <<phase, config, sock, sockUp, sockOpt, connected, nSock, wire, cur,
                   result, nOps, closed, lastRx, mvars>>

Connect(t, ok) ==
    /\ pc[t] = "connect"
    /\ connect(ok)
    /\ IF ok
       THEN /\ pc' = [pc EXCEPT ![t] = "send"]
            /\ UNCHANGED result
            /\ UNCHANGED cur
       ELSE Finish(t, "PlcCommunicationError", "connect")
    /\ UNCHANGED <<phase, config, nOps, closed, lastRx, mvars>>

\* mutant: a sendall that raised is tried again
Send_Retry(t, io) ==
    /\ pc[t] = "send"
    /\ IF sock = 0
       THEN /\ io = "socket.error"
            /\ Finish(t, "AttributeError", "none_sock")
            /\ UNCHANGED <<connected, wire>>
       ELSE IF io = "ok"
       THEN /\ sockUp
            /\ wire' = Append(wire, t)
            /\ cur' = [cur EXCEPT ![t].sentOn = sock]
            /\ pc' = [pc EXCEPT ![t] = "recv"]
            /\ UNCHANGED <<connected, result>>
       ELSE /\ sockUp \/ io = "socket.error"
            /\ connected' = ConnectedAfter(io)
            /\ result' = [result EXCEPT ![t] = [exc |-> Reraised(io), why |-> io]]
            /\ UNCHANGED <<wire, pc, cur>>
    /\ UNCHANGED <<phase, config, sock, sockUp, sockOpt, nSock, nOps, closed, lastRx, mvars>>

\* self.sock.sendall(frame).  io is what the socket does: "ok", or it raises
\* "socket.timeout" or another "socket.error".  On None, sendall is an
\* AttributeError, which no except clause catches.
Send(t, io) ==
    /\ pc[t] = "send"
    /\ IF sock = 0
       THEN /\ io = "socket.error"
            /\ Finish(t, "AttributeError", "none_sock")
            /\ UNCHANGED <<connected, wire>>
       ELSE IF io = "ok"
       THEN /\ sockUp
            /\ wire' = Append(wire, t)
            /\ cur' = [cur EXCEPT ![t].sentOn = sock]
            /\ pc' = [pc EXCEPT ![t] = "recv"]
            /\ UNCHANGED <<connected, result>>
       ELSE /\ sockUp \/ io = "socket.error"
            /\ connected' = ConnectedAfter(io)
            /\ Finish(t, Reraised(io), io)
            /\ UNCHANGED wire
    /\ UNCHANGED <<phase, config, sock, sockUp, sockOpt, nSock, nOps, closed, lastRx, mvars>>

\* the bufsize argument of recv
BUFSIZE == 1024

\* response = self.sock.recv(1024) and everything after it, up to the return
\* of read_devices / write_devices and, in read_string, of parse_string_data.
\* The stream delivers the responses in the order of the frames sent on the
\* socket; response is what the PLC sent, of which recv returns at most
\* BUFSIZE bytes.
Recv(t, io, response) ==
    /\ pc[t] = "recv"
    /\ IF sock = 0
       THEN /\ io = "socket.error" /\ response = <<>>
            /\ Finish(t, "AttributeError", "none_sock")
            /\ UNCHANGED <<connected, wire, lastRx>>
       ELSE IF io = "ok"
       THEN /\ sockUp
            /\ wire # <<>>
            /\ wire' = Tail(wire)
            /\ LET received == SubSeq(response, 1, Min(Len(response), BUFSIZE))
                   out == CheckResponse(received, frame_type)
                   parsed == parse_read_response(received, cur[t].count,
                                 is_bit_device(cur[t].device_type), frame_type)
                   res == IF out.exc # "ok" THEN [exc |-> out.exc, why |-> out.why]
                          ELSE IF cur[t].op = "write" THEN [exc |-> "ok", why |-> "ok"]
                          ELSE IF parsed.kind # "ok" \/ cur[t].call.op # "read_string"
                          THEN [exc |-> parsed.kind, why |-> "parse"]
                          ELSE [exc |-> parse_string_data(parsed.data).kind,
                                why |-> "decode"]
               IN  /\ lastRx' = [thr |-> t, answers |-> Head(wire),
                                 sent |-> Len(response),
                                 resp |-> received, out |-> out, res |-> res.exc,
                                 data |-> IF out.exc = "ok" /\ cur[t].op = "read"
                                          THEN parsed.data ELSE <<>>]
                   /\ connected' = ConnectedAfter(out.exc)
                   /\ Finish(t, res.exc, res.why)
       ELSE /\ sockUp \/ io = "socket.error"
            /\ response = <<>>
            /\ connected' = ConnectedAfter(io)
            /\ Finish(t, Reraised(io), io)
            /\ UNCHANGED <<wire, lastRx>>
    /\ UNCHANGED <<phase, config, sock, sockUp, sockOpt, nSock, nOps, closed, mvars>>

\* close() called by a user of the session
Close(t) ==
    /\ phase = "live"
    /\ pc[t] = "idle"
    /\ close
    /\ closed' = [called |-> TRUE, nSock |-> nSock]
    /\ UNCHANGED <<phase, config, nSock, pc, cur, result, nOps, lastRx, mvars>>

\* The operations the threads call: a word read, a bit read, a word write and
\* a read of a device class that DEVICE_CODES does not hold.
Ops ==
    {[NoCall EXCEPT !.op = "read", !.device_type = "D", !.count = 2],
     [NoCall EXCEPT !.op = "read", !.device_type = "M", !.count = 1],
     [NoCall EXCEPT !.op = "write", !.device_type = "D", !.count = 1, !.values = <<7>>],
     [NoCall EXCEPT !.op = "read", !.device_type = "Q", !.count = 1]}
IoOutcomes == {"ok", "socket.timeout", "socket.error"}

SessionNext(T, O, R) ==
    \/ \E ok \in BOOLEAN : Construct(ok)
    \/ \E t \in T, o \in O : Begin(t, o)
    \/ \E t \in T : Entry(t)
    \/ \E t \in T, ok \in BOOLEAN : Connect(t, ok)
    \/ \E t \in T, io \in IoOutcomes : Send(t, io)
    \/ \E t \in T, io \in IoOutcomes, r \in R : Recv(t, io, r)
    \/ \E t \in T : Close(t)

\* One thread uses the session.
Next == SessionNext({"caller"}, Ops, Responses)
Spec == Init /\ [][Next]_vars

\* The monitor worker and a caller share the session.
SharedResponses ==
    {<<>>, ShapedResponse("3E", 0, <<7, 1, 0, 0>>), ShapedResponse("4E", 49241, <<>>)}
SharedOps == {[NoCall EXCEPT !.op = "read", !.device_type = "D", !.count = 1]}
SharedNext == SessionNext(Threads, SharedOps, SharedResponses)
SharedSpec == Init /\ [][SharedNext]_vars

\* Sessions constructed with either value of auto_reconnect and with the
\* default or another timeout.
ConfigInit ==
    /\ phase = "new"
    /\ frame_type = "3E"
    /\ DefaultRoute
    /\ endpoint = Endpoint
    /\ timeout \in {1, 3}
    /\ auto_reconnect \in BOOLEAN
    /\ SessionFresh
    /\ MonitorFresh
ConfigNext == SessionNext({"caller"}, SharedOps, SharedResponses)
ConfigSpec == ConfigInit /\ [][ConfigNext]_vars

(***************************************************************************)
(* The frames of a session: every method of PlcClient on word, bit and     *)
(* unknown device classes, with device numbers up to 2^24 - 1, counts up   *)
(* to the protocol maximum and strings of one to four UTF-8 bytes per      *)
(* character, for sessions constructed with either framing and with the    *)
(* default or another access route.                                        *)
(***************************************************************************)
Methods == {"read", "write", "read_string", "write_string",
            "read_bits", "write_bits", "read_words", "write_words"}
LongWrite == 130    \* words in the longest write: a request longer than 255 bytes
MaxFrameOps == 2    \* operations begun in one behaviour of FrameSpec

ClassOps ==
    {[op |-> m, device_type |-> d, device_number |-> 100, count |-> 1,
      values |-> <<1>>, string_value |-> <<65>>, max_length |-> 1] :
        m \in Methods, d \in {"D", "M", "Q"}}
ReadOps ==
    {[NoCall EXCEPT !.op = "read", !.device_type = "D", !.device_number = n, !.count = 960] :
        n \in {0, 100, 74565, 16777215}}
    \cup {[NoCall EXCEPT !.op = "read", !.device_type = d, !.device_number = 100,
                         !.count = c] : d \in {"D", "M"}, c \in {1, 10}}
    \cup {[NoCall EXCEPT !.op = "read_string", !.device_type = "D", !.max_length = 80]}
WriteOps ==
    {[NoCall EXCEPT !.op = "write", !.device_type = "D", !.device_number = 100,
                    !.count = Len(v), !.values = v] :
        v \in {<<>>, <<0>>, <<65535, 4660>>, [i \in 1..LongWrite |-> (i * 500) % 65536]}}
    \cup {[NoCall EXCEPT !.op = "write", !.device_type = "M", !.device_number = 16777215,
                         !.count = 3, !.values = <<1, 0, 5>>]}
Strings ==
    {<<>>, <<65>>, <<72, 105>>, <<72, 101, 108, 108, 111>>, <<233>>,
     <<12354, 128512, 65>>, <<65, 0, 66>>, <<233, 0, 65>>}
StringOps ==
    {[NoCall EXCEPT !.op = "write_string", !.device_type = "D", !.device_number = 100,
                    !.string_value = str] : str \in Strings}
\* counts at and beyond the ends of what one request may hold, values at and
\* beyond the ends of 16 bits, and the lengths read_string is called with
CountOps ==
    {[NoCall EXCEPT !.op = "read", !.device_type = "D", !.device_number = 100, !.count = 0],
     [NoCall EXCEPT !.op = "read", !.device_type = "D", !.device_number = 100, !.count = 961],
     [NoCall EXCEPT !.op = "read", !.device_type = "M", !.device_number = 100, !.count = 7168],
     [NoCall EXCEPT !.op = "read", !.device_type = "M", !.device_number = 100, !.count = 7169]}
RangeOps ==
    {[NoCall EXCEPT !.op = "write", !.device_type = "D", !.device_number = 100,
                    !.count = Len(v), !.values = v] :
        v \in {<<65536>>, <<7, 70000>>, <<-1>>}}
StringReadOps ==
    {[NoCall EXCEPT !.op = "read_string", !.device_type = "D", !.device_number = 100,
                    !.max_length = m] : m \in {2, 3, 43690}}
FrameOps ==
    ClassOps \cup ReadOps \cup WriteOps \cup StringOps
        \cup CountOps \cup RangeOps \cup StringReadOps
\* the PLC answers in the session's framing: nothing, two words that are a
\* string, or two words that are no UTF-8
FrameResponses ==
    {<<>>} \cup {ShapedResponse(frame_type, 0, p) : p \in {<<72, 105, 0, 0>>, <<255, 0, 0, 0>>}}

FrameInit ==
    /\ phase = "new"
    /\ frame_type \in FrameTypes
    /\ \/ DefaultRoute
       \/ network_no = 1 /\ pc_no = 2 /\ unit_io = 772 /\ unit_station = 5
    /\ DefaultOptions
    /\ SessionFresh
    /\ MonitorFresh
FrameNext ==
    SessionNext({"caller"}, IF nOps < MaxFrameOps THEN FrameOps ELSE {}, FrameResponses)
FrameSpec == FrameInit /\ [][FrameNext]_vars

\* Reads of few and of many elements, each answered in full: sessions of
\* either framing whose PLC sends the complete successful response to the
\* read in flight, or nothing.
BufferOps ==
    {[NoCall EXCEPT !.op = "read", !.device_type = "D", !.device_number = 100, !.count = c] :
        c \in {1, 504, 507, 960}}
    \cup {[NoCall EXCEPT !.op = "read", !.device_type = "M", !.device_number = 100,
                         !.count = c] : c \in {1009, 7168}}
BufferResponses ==
    {<<>>,
     ShapedResponse(frame_type, 0,
         [i \in 1..(cur["caller"].count *
                       (IF is_bit_device(cur["caller"].device_type) THEN 1 ELSE 2)) |-> i % 2])}
BufferNext == SessionNext({"caller"}, BufferOps, BufferResponses)
BufferSpec == Init /\ [][BufferNext]_vars

(***************************************************************************)
(* PlcMonitor (monitor.py).                                                *)
(***************************************************************************)
MaxTargets == 2     \* monitor objects created in one behaviour of MonSpec
MonWorkers == 1     \* worker threads created in one behaviour of MonSpec
LifeTargets == 1    \* monitor objects created in one behaviour of LifeSpec
MaxWorkers == 2     \* worker threads created in one behaviour of LifeSpec
GroupCount == 2     \* the count of the range targets
ListTargets == 3    \* monitor objects created in one behaviour of ListSpec
CycleTargets == 2   \* monitor objects created in one behaviour of CycleSpec
ValueTargets == 1   \* monitor objects created in one behaviour of ValueSpec

Values == {10, 20}
WordBytes(v) == <<v % 256, v \div 256>>
RECURSIVE WordsBytes(_)
WordsBytes(vs) == IF vs = <<>> THEN <<>> ELSE WordBytes(Head(vs)) \o WordsBytes(Tail(vs))

\* last_value / last_values: None, or a value
NoValue == [some |-> FALSE, v |-> 0]
NoValues == [some |-> FALSE, v |-> <<>>]
Some(v) == [some |-> TRUE, v |-> v]

\* error.py: the classes derived from PlcError
IsPlcError(kind) ==
    kind \in {"PlcCommunicationError", "PlcDeviceError", "PlcTimeoutError"}

\* What PlcClient.read_devices returns or raises to the monitor: io is what
\* the socket does, response what recv() returns.
read_devices(io, response, count, device_type, ft) ==
    IF io # "ok" THEN [kind |-> Reraised(io), data |-> <<>>]
    ELSE IF CheckResponse(response, ft).exc # "ok"
    THEN [kind |-> CheckResponse(response, ft).exc, data |-> <<>>]
    ELSE parse_read_response(response, count, is_bit_device(device_type), ft)

\* The responses the PLC gives to a read of count words: the values, an end
\* code, or a response without its payload.
MonResponses(count, ft) ==
    {ShapedResponse(ft, 0, WordsBytes(vs)) : vs \in [1..count -> Values]}
    \cup {ShapedResponse(ft, 49241, <<>>), ShapedResponse(ft, 0, <<>>)}
\* What a read can meet: the socket's outcome and the response received
MonReads(count, ft) ==
    {[io |-> "ok", response |-> r] : r \in MonResponses(count, ft)}
    \cup {[io |-> "socket.timeout", response |-> <<>>]}

\* self.callback(device_type, device_number, old_value, new_value) inside
\* try/except Exception; raised is whether the user's function raised
Callback(o, num, old, new, raised) ==
    [fn |-> "callback", device_type |-> o.device_type, num |-> num,
     old |-> old, new |-> new, raised |-> raised]

\* mutant: the callback is also made when last_value was None
PointUpdate_NoNoneCheck(o, value, raises) ==
    IF o.last # Some(value)
    THEN [o |-> [o EXCEPT !.last = Some(value)],
          calls |-> IF o.callback
                    THEN <<Callback(o, o.device_number, o.last.v, value, raises)>>
                    ELSE <<>>]
    ELSE [o |-> o, calls |-> <<>>]

\* DeviceMonitor.update(value): the object afterwards and the calls made
PointUpdate(o, value, raises) ==
    IF o.last # Some(value)
    THEN [o |-> [o EXCEPT !.last = Some(value)],
          calls |-> IF o.callback /\ o.last.some
                    THEN <<Callback(o, o.device_number, o.last.v, value, raises)>>
                    ELSE <<>>]
    ELSE [o |-> o, calls |-> <<>>]

\* DeviceGroupMonitor.update: for i, (old, new) in enumerate(zip(last_values, values))
RECURSIVE GroupCalls(_, _, _, _, _)
GroupCalls(o, olds, news, i, raises) ==
    IF i > Min(Len(olds), Len(news)) THEN <<>>
    ELSE (IF olds[i] # news[i] /\ o.callback
          THEN <<Callback(o, o.device_number + (i - 1), olds[i], news[i], raises)>>
          ELSE <<>>)
         \o GroupCalls(o, olds, news, i + 1, raises)

\* mutant: a callback that raises ends the update (no try/except around it)
RECURSIVE GroupCalls_Unguarded(_, _, _, _, _)
GroupCalls_Unguarded(o, olds, news, i, raises) ==
    IF i > Min(Len(olds), Len(news)) THEN <<>>
    ELSE IF olds[i] # news[i] /\ o.callback
    THEN <<Callback(o, o.device_number + (i - 1), olds[i], news[i], raises)>>
         \o (IF raises THEN <<>> ELSE GroupCalls_Unguarded(o, olds, news, i + 1, raises))
    ELSE GroupCalls_Unguarded(o, olds, news, i + 1, raises)
GroupUpdate_Unguarded(o, values, raises) ==
    IF o.last # Some(values)
    THEN IF ~o.last.some
         THEN [o |-> [o EXCEPT !.last = Some(values)], calls |-> <<>>]
         ELSE [o |-> IF raises /\ GroupCalls_Unguarded(o, o.last.v, values, 1, raises) # <<>>
                     THEN o ELSE [o EXCEPT !.last = Some(values)],
               calls |-> GroupCalls_Unguarded(o, o.last.v, values, 1, raises)]
    ELSE [o |-> o, calls |-> <<>>]

\* mutant: the loop over the positions ends at the first change
GroupUpdate_FirstChangeOnly(o, values, raises) ==
    IF o.last # Some(values)
    THEN IF ~o.last.some
         THEN [o |-> [o EXCEPT !.last = Some(values)], calls |-> <<>>]
         ELSE [o |-> [o EXCEPT !.last = Some(values)],
               calls |-> IF GroupCalls(o, o.last.v, values, 1, raises) = <<>> THEN <<>>
                         ELSE <<Head(GroupCalls(o, o.last.v, values, 1, raises))>>]
    ELSE [o |-> o, calls |-> <<>>]

\* DeviceGroupMonitor.update(values): the object afterwards and the calls made
GroupUpdate(o, values, raises) ==
    IF o.last # Some(values)
    THEN IF ~o.last.some
         THEN [o |-> [o EXCEPT !.last = Some(values)], calls |-> <<>>]
         ELSE [o |-> [o EXCEPT !.last = Some(values)],
               calls |-> GroupCalls(o, o.last.v, values, 1, raises)]
    ELSE [o |-> o, calls |-> <<>>]

\* DeviceMonitor.handle_error / DeviceGroupMonitor.handle_error: the calls made
handle_error(o, raises) ==
    IF o.on_error
    THEN <<[fn |-> "on_error", device_type |-> o.device_type,
            ident |-> IF o.kind = "point" THEN <<o.device_number>>
                      ELSE <<o.device_number, o.device_number + o.count - 1>>,
            raised |-> raises]>>
    ELSE <<>>

\* The history of a target after a read that returned new, if trace is
\* "values":
\* good is the value last read, miss is 2 if the read follows a failed one,
\* and for a point target expect is the new value of the last callback made
\* for it, or the first value read for it while no callback was made.
Traced(o, after, new, calls) ==
    IF trace = "values"
    THEN [after EXCEPT !.good = Some(new),
                       !.miss = IF o.miss = 1 THEN 2 ELSE 0,
                       !.expect = IF o.kind = "point" /\ (calls # <<>> \/ ~o.expect.some)
                                  THEN Some(new) ELSE @]
    ELSE after

\* mutant: a failed read forgets the last value
Failed_Forgets(o) ==
    [o EXCEPT !.last = IF o.kind = "point" THEN NoValue ELSE NoValues,
              !.miss = IF trace = "values" THEN 1 ELSE @]

\* The object after a read that raised: neither handle_error nor the except
\* clauses of the loop assign a field of it; miss is history.
Failed(o) == [o EXCEPT !.miss = IF trace = "values" THEN 1 ELSE @]

\* What a thread does with the outcome r of the read it made for object o:
\* thr is 0 for the caller (the seed of add_device / add_devices, which
\* assigns last_value itself and calls handle_error only if on_error is given).
Processed(thr, id, o, r, raises) ==
    IF r.kind = "ok"
    THEN LET new == IF o.kind = "point" THEN r.data[1] ELSE r.data
             u == IF thr = 0 THEN [o |-> [o EXCEPT !.last = Some(new)], calls |-> <<>>]
                  ELSE IF o.kind = "point" THEN PointUpdate(o, new, raises)
                  ELSE GroupUpdate(o, new, raises)
         IN  [o |-> Traced(o, u.o, new, u.calls),
              ev |-> [op |-> IF thr = 0 THEN "seed" ELSE "update", thr |-> thr,
                      obj |-> id, old |-> o.last, new |-> new, calls |-> u.calls,
                      ret |-> IF thr = 0 THEN "returned" ELSE "none"]]
    ELSE IF IsPlcError(r.kind)
    THEN [o |-> Failed(o),
          ev |-> [op |-> "error", thr |-> thr, obj |-> id, old |-> o.last, new |-> 0,
                  calls |-> handle_error(o, raises),
                  ret |-> IF thr = 0 THEN "returned" ELSE "none"]]
    ELSE [o |-> Failed(o),
          ev |-> [op |-> "unexpected", thr |-> thr, obj |-> id, old |-> o.last,
                  new |-> 0, calls |-> <<>>,
                  ret |-> IF thr = 0 THEN "raised" ELSE "none"]]

NewObject(kind, number, count, cbs) ==
    [kind |-> kind, device_type |-> "D", device_number |-> number, count |-> count,
     last |-> IF kind = "point" THEN NoValue ELSE NoValues,
     callback |-> cbs, on_error |-> cbs,
     cleared |-> FALSE,     \* history: a clear() took the object off its list
     expect |-> NoValue,    \* history: see Traced
     good |-> NoValue,
     miss |-> 0]

\* A worker: its position, the loop's iterator index and element, and the
\* history of its current cycle: seen, the objects it has read so far, and
\* dirty, whether a list was mutated since the cycle began, and born, the
\* number of objects that existed when the cycle began.  Unless trace is
\* "cycles", seen is not recorded after a mutation and born is not recorded.
NewWorker == [pc |-> "while", idx |-> 0, obj |-> 0, seen |-> <<>>, dirty |-> FALSE,
              born |-> 0]

InCycle(w) == workers[w].pc \in {"for_points", "read_point", "cb_point",
                                 "for_groups", "read_group", "sleep"}
\* the workers after a mutation of self.monitors or self.group_monitors
Mutated(changed) ==
    [w \in DOMAIN workers |->
        IF changed /\ InCycle(w)
        THEN [workers[w] EXCEPT !.dirty = TRUE, !.seen = IF trace = "cycles" THEN @ ELSE <<>>]
        ELSE workers[w]]
Saw(w, id) ==
    IF workers[w].dirty /\ trace # "cycles" THEN <<>> ELSE Append(workers[w].seen, id)

\* ---- the caller thread ----

\* add_device / add_devices up to the read: the object is created and appended
Add(kind, number, cbs) ==
    /\ caller.pc = "idle"
    /\ objs' = Append(objs, NewObject(kind, number,
                                      IF kind = "point" THEN 1 ELSE GroupCount, cbs))
    /\ IF kind = "point"
       THEN monitors' = Append(monitors, Len(objs) + 1) /\ UNCHANGED group_monitors
       ELSE group_monitors' = Append(group_monitors, Len(objs) + 1) /\ UNCHANGED monitors
    /\ caller' = [pc |-> "seed", obj |-> Len(objs) + 1]
    /\ workers' = Mutated(TRUE)
    /\ ev' = NoEvent
    /\ UNCHANGED <<interval, running, thread, stopped, svars>>

\* add_device / add_devices: the read of the initial value and what follows
AddSeed(rd, raises) ==
    /\ caller.pc = "seed"
    /\ rd \in MonReads(objs[caller.obj].count, frame_type)
    /\ LET o == objs[caller.obj]
           r == read_devices(rd.io, rd.response, o.count, o.device_type, frame_type)
           p == Processed(0, caller.obj, o, r, raises)
       IN  /\ raises => p.ev.calls # <<>>
           /\ objs' = [objs EXCEPT ![caller.obj] = p.o]
           /\ ev' = p.ev
           /\ caller' = [pc |-> "idle", obj |-> 0]
    /\ UNCHANGED <<monitors, group_monitors, interval, running, thread, workers,
                   stopped, svars>>

\* mutant: the last object that matches is the one found
FirstMatch_Last(list, i, kind, number, count) ==
    LET hits == {j \in i..Len(list) :
                    /\ objs[list[j]].device_type = "D"
                    /\ objs[list[j]].device_number = number
                    /\ (kind = "group" => objs[list[j]].count = count)}
    IN  IF hits = {} THEN 0 ELSE CHOOSE j \in hits : \A h \in hits : h <= j

\* the index (from 1) of the first object of list that matches, 0 if none
RECURSIVE FirstMatch(_, _, _, _, _)
FirstMatch(list, i, kind, number, count) ==
    IF i > Len(list) THEN 0
    ELSE IF /\ objs[list[i]].device_type = "D"
            /\ objs[list[i]].device_number = number
            /\ (kind = "group" => objs[list[i]].count = count)
         THEN i
         ELSE FirstMatch(list, i + 1, kind, number, count)

Pop(list, i) == SubSeq(list, 1, i - 1) \o SubSeq(list, i + 1, Len(list))

\* remove_device / remove_devices
Remove(kind, number) ==
    /\ caller.pc = "idle"
    /\ LET list == IF kind = "point" THEN monitors ELSE group_monitors
           i == FirstMatch(list, 1, kind, number, GroupCount)
       IN  /\ IF kind = "point"
              THEN /\ monitors' = IF i = 0 THEN monitors ELSE Pop(monitors, i)
                   /\ UNCHANGED group_monitors
              ELSE /\ group_monitors' = IF i = 0 THEN group_monitors
                                        ELSE Pop(group_monitors, i)
                   /\ UNCHANGED monitors
           /\ ev' = [NoEvent EXCEPT !.op = "remove",
                                     !.ret = IF i = 0 THEN "False" ELSE "True"]
           /\ workers' = Mutated(i # 0)
    /\ UNCHANGED <<objs, interval, running, thread, caller, stopped, svars>>

\* the objects of the two lists
Registered == {monitors[i] : i \in DOMAIN monitors}
                  \cup {group_monitors[i] : i \in DOMAIN group_monitors}

\* mutant: clear() that empties self.monitors only
Clear_PointsOnly ==
    /\ caller.pc = "idle"
    /\ monitors' = <<>>
    /\ group_monitors' = group_monitors
    /\ objs' = [id \in DOMAIN objs |->
                  IF trace = "cycles" /\ id \in Registered
                  THEN [objs[id] EXCEPT !.cleared = TRUE] ELSE objs[id]]
    /\ caller' = [pc |-> "idle", obj |-> 0]
    /\ workers' = Mutated(monitors # <<>> \/ group_monitors # <<>>)
    /\ ev' = NoEvent
    /\ UNCHANGED <<interval, running, thread, stopped, svars>>

\* clear()
Clear ==
    /\ caller.pc = "idle"
    /\ monitors' = <<>>
    /\ group_monitors' = <<>>
    /\ objs' = [id \in DOMAIN objs |->
                  IF trace = "cycles" /\ id \in Registered
                  THEN [objs[id] EXCEPT !.cleared = TRUE] ELSE objs[id]]
    /\ caller' = [pc |-> "idle", obj |-> 0]
    /\ workers' = Mutated(monitors # <<>> \/ group_monitors # <<>>)
    /\ ev' = NoEvent
    /\ UNCHANGED <<interval, running, thread, stopped, svars>>


\* start(interval): iv = 0 stands for None
Start(iv) ==
    /\ caller.pc = "idle"
    /\ interval' = IF iv # 0 THEN iv ELSE interval
    /\ IF ~running
       THEN /\ running' = TRUE
            /\ workers' = Append(workers, NewWorker)
            /\ thread' = Len(workers) + 1
       ELSE UNCHANGED <<running, workers, thread>>
    /\ stopped' = FALSE
    /\ caller' = [pc |-> "idle", obj |-> 0]
    /\ ev' = NoEvent
    /\ UNCHANGED <<objs, monitors, group_monitors, svars>>

\* stop(): self.running = False, then the join if there is a thread
Stop ==
    /\ caller.pc = "idle"
    /\ running' = FALSE
    /\ IF thread # 0
       THEN /\ caller' = [pc |-> "join", obj |-> 0]
            /\ UNCHANGED stopped
       ELSE /\ caller' = [pc |-> "idle", obj |-> 0]
            /\ stopped' = TRUE
    /\ ev' = NoEvent
    /\ UNCHANGED <<objs, monitors, group_monitors, interval, thread, workers, svars>>

\* self.thread.join(timeout=self.interval * 2) returns, and self.thread = None.
\* It returns when the thread has ended, or after 2 * interval: the timeout
\* can pass while the worker is blocked in a read, whose duration the
\* session's socket timeout bounds, not the interval.
Join(timed_out) ==
    /\ caller.pc = "join"
    /\ IF timed_out
       THEN workers[thread].pc \in {"read_point", "read_group"}
       ELSE workers[thread].pc = "exited"
    /\ thread' = 0
    /\ stopped' = TRUE
    /\ caller' = [pc |-> "idle", obj |-> 0]
    /\ ev' = NoEvent
    /\ UNCHANGED <<objs, monitors, group_monitors, interval, running, workers, svars>>

\* ---- a worker thread: _monitor_loop ----

\* while self.running:
While(w) ==
    /\ workers[w].pc = "while"
    /\ workers' = [workers EXCEPT ![w] =
                     IF running
                     THEN [NewWorker EXCEPT !.pc = "for_points",
                                            !.born = IF trace = "cycles" THEN Len(objs)
                                                     ELSE 0]
                     ELSE [NewWorker EXCEPT !.pc = "exited"]]
    /\ ev' = NoEvent
    /\ UNCHANGED <<objs, monitors, group_monitors, interval, running, thread, caller,
                   stopped, svars>>

\* mutant: the loop over self.monitors runs from the last element to the first
ForPoints_Reversed(w) ==
    /\ workers[w].pc = "for_points"
    /\ workers' = [workers EXCEPT ![w] =
                     IF workers[w].idx < Len(monitors)
                     THEN [@ EXCEPT !.pc = "read_point", !.idx = @ + 1,
                                    !.obj = monitors[Len(monitors) - workers[w].idx],
                                    !.seen = Saw(w, monitors[Len(monitors) - workers[w].idx])]
                     ELSE [@ EXCEPT !.pc = "for_groups", !.idx = 0, !.obj = 0]]
    /\ ev' = NoEvent
    /\ UNCHANGED <<objs, monitors, group_monitors, interval, running, thread, caller,
                   stopped, svars>>

\* for monitor in self.monitors: the list iterator takes the element at its
\* index, or ends; the body starts with the call of read_device
ForPoints(w) ==
    /\ workers[w].pc = "for_points"
    /\ workers' = [workers EXCEPT ![w] =
                     IF workers[w].idx < Len(monitors)
                     THEN [@ EXCEPT !.pc = "read_point", !.idx = @ + 1,
                                    !.obj = monitors[workers[w].idx + 1],
                                    !.seen = Saw(w, monitors[workers[w].idx + 1])]
                     ELSE [@ EXCEPT !.pc = "for_groups", !.idx = 0, !.obj = 0]]
    /\ ev' = NoEvent
    /\ UNCHANGED <<objs, monitors, group_monitors, interval, running, thread, caller,
                   stopped, svars>>

\* for monitor in self.group_monitors:
ForGroups(w) ==
    /\ workers[w].pc = "for_groups"
    /\ workers' = [workers EXCEPT ![w] =
                     IF workers[w].idx < Len(group_monitors)
                     THEN [@ EXCEPT !.pc = "read_group", !.idx = @ + 1,
                                    !.obj = group_monitors[workers[w].idx + 1],
                                    !.seen = Saw(w, group_monitors[workers[w].idx + 1])]
                     ELSE [@ EXCEPT !.pc = "sleep", !.idx = 0, !.obj = 0]]
    /\ ev' = NoEvent
    /\ UNCHANGED <<objs, monitors, group_monitors, interval, running, thread, caller,
                   stopped, svars>>

\* the body of either loop: the read returns or raises, then monitor.update
\* or monitor.handle_error, or the log of an unexpected error
Read(w, rd, raises) ==
    /\ workers[w].pc \in {"read_point", "read_group"}
    /\ rd \in MonReads(objs[workers[w].obj].count, frame_type)
    /\ LET id == workers[w].obj
           o == objs[id]
           r == read_devices(rd.io, rd.response, o.count, o.device_type, frame_type)
           p == Processed(w, id, o, r, raises)
       IN  /\ raises => p.ev.calls # <<>>
           /\ objs' = [objs EXCEPT ![id] = p.o]
           /\ ev' = p.ev
    /\ workers' = [workers EXCEPT ![w].pc =
                     IF workers[w].pc = "read_point" THEN "for_points" ELSE "for_groups"]
    /\ UNCHANGED <<monitors, group_monitors, interval, running, thread, caller,
                   stopped, svars>>

\* time.sleep(self.interval - elapsed), or the warning that the cycle took too long
Sleep(w) ==
    /\ workers[w].pc = "sleep"
    /\ workers' = [workers EXCEPT ![w] = NewWorker]
    /\ ev' = NoEvent
    /\ UNCHANGED <<objs, monitors, group_monitors, interval, running, thread, caller,
                   stopped, svars>>

\* The session the monitor is given: constructed, 3E, connected.
MonInit ==
    /\ phase = "live"
    /\ frame_type = "3E"
    /\ DefaultRoute
    /\ DefaultOptions
    /\ SessionFresh
    /\ MonitorFresh

Numbers == {100, 101}
AllReads == MonReads(1, "3E") \cup MonReads(GroupCount, "3E")

\* The steps of the caller and of the workers, for targets of the kinds K
\* with or without callbacks (Cbs), start() with the intervals Ivs, at most
\* nT objects and nW worker threads created.
MonitorNext(K, Cbs, Ivs, nT, nW) ==
    \/ \E k \in K, cbs \in Cbs : Len(objs) < nT /\ Add(k, 100, cbs)
    \/ \E rd \in AllReads, raises \in BOOLEAN : AddSeed(rd, raises)
    \/ \E k \in K, n \in Numbers : Remove(k, n)
    \/ Clear
    \/ \E iv \in Ivs : (running \/ Len(workers) < nW) /\ Start(iv)
    \/ Stop
    \/ \E timed_out \in BOOLEAN : Join(timed_out)
    \/ \E w \in DOMAIN workers : While(w)
    \/ \E w \in DOMAIN workers : ForPoints(w)
    \/ \E w \in DOMAIN workers : ForGroups(w)
    \/ \E w \in DOMAIN workers, rd \in AllReads, raises \in BOOLEAN : Read(w, rd, raises)
    \/ \E w \in DOMAIN workers : Sleep(w)

\* Targets and callbacks: point and range targets under one worker.
MonNext == MonitorNext({"point", "group"}, BOOLEAN, {0}, MaxTargets, MonWorkers)
MonSpec == MonInit /\ [][MonNext]_vars

\* The lists of targets: the caller adds targets with either device number,
\* removes and clears them; no worker runs.
ListNext ==
    \/ \E k \in {"point", "group"}, n \in Numbers :
          Len(objs) < ListTargets /\ Add(k, n, FALSE)
    \/ \E rd \in AllReads : AddSeed(rd, FALSE)
    \/ \E k \in {"point", "group"}, n \in Numbers : Remove(k, n)
    \/ Clear
ListSpec == MonInit /\ [][ListNext]_vars

\* Cycles under mutation: targets of both kinds with callbacks under one
\* worker, with the full history of each cycle recorded.
CycleInit ==
    /\ phase = "live"
    /\ frame_type = "3E"
    /\ DefaultRoute
    /\ DefaultOptions
    /\ SessionFresh
    /\ MonitorFreshWith("cycles")
CycleNext == MonitorNext({"point", "group"}, {TRUE}, {0}, CycleTargets, MonWorkers)
CycleSpec == CycleInit /\ [][CycleNext]_vars

\* The values of one target: a point or a range target with callbacks under
\* one worker, with the history of the target's reads recorded.
ValueInit ==
    /\ phase = "live"
    /\ frame_type = "3E"
    /\ DefaultRoute
    /\ DefaultOptions
    /\ SessionFresh
    /\ MonitorFreshWith("values")
ValueNext == MonitorNext({"point", "group"}, {TRUE}, {0}, ValueTargets, MonWorkers)
ValueSpec == ValueInit /\ [][ValueNext]_vars

\* start() and stop(): several workers over one point target.
LifeNext == MonitorNext({"point"}, {TRUE}, {0, 2}, LifeTargets, MaxWorkers)
LifeSpec == MonInit /\ [][LifeNext]_vars

(***************************************************************************)
(* Callbacks as intervals.  The user's function runs for some time on the  *)
(* thread that calls it: the steps below split the handling of a read at   *)
(* the entry into the callback and at its return, for point targets.       *)
(***************************************************************************)

\* a worker: the read returns or raises, monitor.update / handle_error runs
\* up to the call of the user's function, if it makes one
ReadEnter(w, rd, raises) ==
    /\ workers[w].pc = "read_point"
    /\ rd \in MonReads(objs[workers[w].obj].count, frame_type)
    /\ LET id == workers[w].obj
           o == objs[id]
           r == read_devices(rd.io, rd.response, o.count, o.device_type, frame_type)
           p == Processed(w, id, o, r, raises)
       IN  /\ raises => p.ev.calls # <<>>
           /\ objs' = [objs EXCEPT ![id] = p.o]
           /\ ev' = p.ev
           /\ workers' = [workers EXCEPT ![w].pc =
                            IF p.ev.calls # <<>> THEN "cb_point" ELSE "for_points"]
    /\ UNCHANGED <<monitors, group_monitors, interval, running, thread, caller,
                   stopped, svars>>

\* a worker: the user's function returns or raises, update / handle_error
\* returns to the loop
CallbackReturn(w) ==
    /\ workers[w].pc = "cb_point"
    /\ workers' = [workers EXCEPT ![w].pc = "for_points"]
    /\ ev' = NoEvent
    /\ UNCHANGED <<objs, monitors, group_monitors, interval, running, thread, caller,
                   stopped, svars>>

\* the caller in add_device: the read returns or raises, up to the call of
\* on_error by handle_error, if it is made
SeedEnter(rd, raises) ==
    /\ caller.pc = "seed"
    /\ objs[caller.obj].kind = "point"
    /\ rd \in MonReads(objs[caller.obj].count, frame_type)
    /\ LET o == objs[caller.obj]
           r == read_devices(rd.io, rd.response, o.count, o.device_type, frame_type)
           p == Processed(0, caller.obj, o, r, raises)
       IN  /\ raises => p.ev.calls # <<>>
           /\ objs' = [objs EXCEPT ![caller.obj] = p.o]
           /\ ev' = p.ev
           /\ caller' = IF p.ev.calls # <<>>
                        THEN [pc |-> "in_callback", obj |-> caller.obj]
                        ELSE [pc |-> "idle", obj |-> 0]
    /\ UNCHANGED <<monitors, group_monitors, interval, running, thread, workers,
                   stopped, svars>>

\* the caller in add_device: on_error returns or raises, add_device returns
SeedReturn ==
    /\ caller.pc = "in_callback"
    /\ caller' = [pc |-> "idle", obj |-> 0]
    /\ ev' = NoEvent
    /\ UNCHANGED <<objs, monitors, group_monitors, interval, running, thread, workers,
                   stopped, svars>>

CallNext ==
    \/ \E cbs \in BOOLEAN : Len(objs) < MaxTargets /\ Add("point", 100, cbs)
    \/ \E rd \in AllReads, raises \in BOOLEAN : SeedEnter(rd, raises)
    \/ SeedReturn
    \/ \E n \in Numbers : Remove("point", n)
    \/ Clear
    \/ (running \/ Len(workers) < MonWorkers) /\ Start(0)
    \/ Stop
    \/ \E timed_out \in BOOLEAN : Join(timed_out)
    \/ \E w \in DOMAIN workers : While(w)
    \/ \E w \in DOMAIN workers : ForPoints(w)
    \/ \E w \in DOMAIN workers : ForGroups(w)
    \/ \E w \in DOMAIN workers, rd \in AllReads, raises \in BOOLEAN : ReadEnter(w, rd, raises)
    \/ \E w \in DOMAIN workers : CallbackReturn(w)
    \/ \E w \in DOMAIN workers : Sleep(w)

\* Point targets under one worker, with the callbacks as intervals.
CallSpec == MonInit /\ [][CallNext]_vars

(***************************************************************************)
(* Claims about the session.                                               *)
(***************************************************************************)
InFlight == {t \in Threads : pc[t] = "recv"}
Finishes(t) == pc[t] # "idle" /\ pc'[t] = "idle"

\* C1: on a session shared by the monitor worker and a caller thread, two
\* requests are never in flight at once (no thread sends between another
\* thread's send and its receive) and every response is delivered to the
\* operation whose frame it answers.
C1_OneRequestInFlight ==
    /\ Cardinality(InFlight) <= 1
    /\ lastRx.thr # "none" => lastRx.answers = lastRx.thr

C3_FailureDisconnectsThenReconnects ==
    /\ [](\A t \in Threads :
            (pc[t] = "recv" /\ cur[t].newerThan > 0)
                => cur[t].sentOn > cur[t].newerThan)
    /\ [][\A t \in Threads :
            (Finishes(t) /\ result'[t].why \in {"socket.timeout", "socket.error"})
                => /\ ~connected'
                   /\ result'[t].exc =
                        (IF result'[t].why = "socket.timeout"
                         THEN "PlcTimeoutError" ELSE "PlcCommunicationError")]_vars

C3_Witness ==
    \E t \in Threads :
        /\ result[t].why = "socket.timeout"
        /\ pc[t] = "recv"
        /\ cur[t].newerThan > 0

\* C4: every operation that fails with a communication error (a timeout
\* included), also on a short response or a non-zero end code, leaves the
\* session marked disconnected.
C4_EveryCommErrorDisconnects ==
    [][\A t \in Threads :
        (Finishes(t) /\ result'[t].exc \in {"PlcCommunicationError", "PlcTimeoutError"})
            => ~connected']_vars

\* C4 as amended: a failed connect, a timeout and a socket error leave the
\* session marked disconnected; a response shorter than the minimum length
\* and a non-zero end code leave the connected flag and the transport as
\* they were.
C4_OnlyTransportErrorsDisconnect ==
    [][\A t \in Threads :
        Finishes(t) =>
            /\ result'[t].why \in {"connect", "socket.timeout", "socket.error"}
                   => ~connected'
            /\ result'[t].why \in {"short", "endcode"}
                   => (connected' = connected /\ sock' = sock /\ sockUp' = sockUp)]_vars

C4_Witness ==
    \E t \in Threads :
        /\ pc[t] = "idle"
        /\ result[t].why \in {"short", "endcode"}
        /\ lastRx.thr = t
        /\ connected

\* C5: an operation succeeds only if the response has at least 11 (3E) or 15
\* (4E) bytes and the little-endian u16 at offset 9 (3E) or 11 (4E) is zero;
\* otherwise it fails with a communication error, whose message for a
\* non-zero end code holds the code as 0x and four hex digits and, for the
\* nine vendor codes, the description of the code.
C5_MinLen == IF frame_type = "3E" THEN 11 ELSE 15
C5_Offset == IF frame_type = "3E" THEN 9 ELSE 11
C5_Code == lastRx.resp[C5_Offset + 1] + 256 * lastRx.resp[C5_Offset + 2]
C5_Hex(n) ==
    <<"0x", HexDigits[((n \div 4096) % 16) + 1], HexDigits[((n \div 256) % 16) + 1],
      HexDigits[((n \div 16) % 16) + 1], HexDigits[(n % 16) + 1]>>
C5_Description(c) ==
    CASE c = 49232 -> "Read/write request to unsupported device"
      [] c = 49233 -> "Read/write request with unsupported number of points"
      [] c = 49234 -> "Read/write request to word device with bit specification"
      [] c = 49236 -> "Read/write request with invalid specification of device"
      [] c = 49238 -> "Read/write request with device out of range"
      [] c = 49241 -> "Read/write request with invalid specification of data count"
      [] c = 49243 -> "Read/write request with invalid specification of stored data"
      [] c = 49244 -> "Read/write request with invalid specification of block"
      [] c = 49259 -> "Request when CPU is in RUN mode and writing is disabled"
      [] OTHER -> "?"
C5_Contains(msg, part) ==
    \E i \in 1..Len(msg) : SubSeq(msg, i, i + Len(part) - 1) = part
Alive == {w \in DOMAIN workers : workers[w].pc # "exited"}
AnyCallRaised == \E j \in 1..Len(ev.calls) : ev.calls[j].raised

C7_Changed == {i \in 1..Len(ev.new) : ev.old.v[i] # ev.new[i]}
C7_RangeChangeCallbacks ==
    (/\ ev.op = "update"
     /\ objs[ev.obj].kind = "group"
     /\ objs[ev.obj].callback
     /\ ev.old.some) =>
        /\ objs[ev.obj].last = Some(ev.new)
        /\ Len(ev.calls) = Cardinality(C7_Changed)
        /\ \A j \in 1..Len(ev.calls) :
              LET i == ev.calls[j].num - objs[ev.obj].device_number + 1
              IN  /\ i \in C7_Changed
                  /\ ev.calls[j].fn = "callback"
                  /\ ev.calls[j].device_type = objs[ev.obj].device_type
                  /\ ev.calls[j].old = ev.old.v[i]
                  /\ ev.calls[j].new = ev.new[i]
        /\ \A j \in 1..(Len(ev.calls) - 1) : ev.calls[j].num < ev.calls[j + 1].num
C7_Witness ==
    /\ ev.op = "update"
    /\ objs[ev.obj].kind = "group"
    /\ ev.old.some
    /\ Cardinality(C7_Changed) = GroupCount
    /\ Len(ev.calls) = GroupCount
    /\ objs[ev.obj].last = Some(ev.new)

\* C8: once stop() has returned, every worker has exited, and no worker
\* processes a read or makes a callback.
C8_StoppedMeansWorkerGone ==
    stopped =>
        /\ Alive = {}
        /\ ev.op \in {"update", "error", "unexpected"} => ev.thr = 0

\* C9: at most one worker thread is alive at any time.
C9_AtMostOneWorker == Cardinality(Alive) <= 1

\* C10: when an on_change or on_error callback raises, the exception stays
\* inside the update: the worker goes on to the next target of its cycle (the
\* caller's add returns), every changed position of a range has had its
\* call, and the last-observed value is the value read.
C10_CallbackExceptionsContained ==
    (ev.op # "none" /\ AnyCallRaised) =>
        /\ ev.thr # 0 =>
              /\ workers[ev.thr].pc \in {"for_points", "for_groups"}
              /\ workers[ev.thr].obj = ev.obj
        /\ ev.thr = 0 => (caller.pc = "idle" /\ ev.ret = "returned")
        /\ ev.op = "update" =>
              /\ objs[ev.obj].last = Some(ev.new)
              /\ objs[ev.obj].kind = "group" => Len(ev.calls) = Cardinality(C7_Changed)
              /\ objs[ev.obj].kind = "point" => Len(ev.calls) = 1
C10_Witness ==
    /\ ev.op = "update"
    /\ ev.thr # 0
    /\ objs[ev.obj].kind = "group"
    /\ AnyCallRaised
    /\ Len(ev.calls) = GroupCount
    /\ workers[ev.thr].pc = "for_groups"


\* C11: whenever the read a worker makes for a target fails, whatever the
\* kind of error, the worker calls that target's on_error exactly once for
\* that read and goes on with the next target of the cycle.
C11_EveryFailedReadReported ==
    (/\ ev.op \in {"error", "unexpected"}
     /\ ev.thr # 0
     /\ objs[ev.obj].on_error) =>
        /\ Len(ev.calls) = 1
        /\ ev.calls[1].fn = "on_error"
        /\ workers[ev.thr].pc \in {"for_points", "for_groups"}

\* C12: when the read that add_device / add_devices makes at registration
\* fails, for any kind of failure, on_error is called, the call returns the
\* handle without raising, and the target stays registered.
C12_AddTimeFailureReported ==
    (/\ ev.op \in {"error", "unexpected"}
     /\ ev.thr = 0
     /\ objs[ev.obj].on_error) =>
        /\ Len(ev.calls) = 1
        /\ ev.calls[1].fn = "on_error"
        /\ ev.ret = "returned"
        /\ \/ \E i \in 1..Len(monitors) : monitors[i] = ev.obj
           \/ \E i \in 1..Len(group_monitors) : group_monitors[i] = ev.obj


\* C13: no two callback invocations of the same target overlap in time: the
\* caller is never inside the on_error of the add-time read while a worker
\* is inside a callback of the same target.
C13_CallbacksNeverOverlap ==
    ~(/\ caller.pc = "in_callback"
      /\ \E w \in DOMAIN workers :
            workers[w].pc = "cb_point" /\ workers[w].obj = caller.obj)


\* C14: in a cycle during which the target lists are not mutated, the worker
\* reads every point target once in insertion order, then every range target
\* once in insertion order, each range as one read of count values: the
\* objects read so far are a prefix of monitors followed by group_monitors,
\* all of them when the cycle's reads are over, and both lists hold the
\* objects in the order of their creation.
C14_Targets == monitors \o group_monitors
C14_Ordered(list) == \A i \in 1..(Len(list) - 1) : list[i] < list[i + 1]
C14_CycleReadsInInsertionOrder ==
    /\ \A w \in DOMAIN workers :
          (InCycle(w) /\ ~workers[w].dirty) =>
              /\ Len(workers[w].seen) <= Len(C14_Targets)
              /\ workers[w].seen = SubSeq(C14_Targets, 1, Len(workers[w].seen))
              /\ workers[w].pc = "for_groups" => Len(workers[w].seen) >= Len(monitors)
              /\ workers[w].pc = "sleep" => workers[w].seen = C14_Targets
    /\ C14_Ordered(monitors) /\ C14_Ordered(group_monitors)
    /\ (ev.op = "update" /\ objs[ev.obj].kind = "group") =>
          Len(ev.new) = objs[ev.obj].count
C14_Witness ==
    \E w \in DOMAIN workers :
        /\ workers[w].pc = "sleep"
        /\ ~workers[w].dirty
        /\ Len(monitors) = 2
        /\ workers[w].seen = monitors


(***************************************************************************)
(* Claims about the operations of a session and their frames.  cur[t].call *)
(* is the call a thread is in, cur[t].frame the frame built for it.        *)
(***************************************************************************)
Built(t) == cur[t].frame # <<>>

\* C15: an operation called with an unknown device class, a string operation
\* on a bit class, read_bits / write_bits on a word class or read_words /
\* write_words on a bit class ends with a device error in the step that
\* begins it: nothing is sent, no connection is opened, the connected flag
\* and the transport are unchanged.
C15_BadClass(o) ==
    \/ o.device_type \notin BIT_DEVICES \cup WORD_DEVICES
    \/ o.op \in {"read_string", "write_string"} /\ o.device_type \in BIT_DEVICES
    \/ o.op \in {"read_bits", "write_bits"} /\ o.device_type \in WORD_DEVICES
    \/ o.op \in {"read_words", "write_words"} /\ o.device_type \in BIT_DEVICES
C15_DeviceErrorBeforeIO ==
    [][\A o \in FrameOps :
          (C15_BadClass(o) /\ Begin("caller", o)) =>
              /\ result'["caller"].exc = "PlcDeviceError"
              /\ pc'["caller"] = "idle"
              /\ UNCHANGED <<sock, sockUp, connected, nSock, wire>>]_vars
C15_Witness ==
    /\ result["caller"].exc = "PlcDeviceError"
    /\ pc["caller"] = "idle"
    /\ connected
    /\ sock = 1
    /\ wire = <<>>

\* C16: every frame sent, by a read, a write or a string write, on the first
\* socket or on a later one, begins with the sub-header of the session's
\* framing and carries the session's network number, PC number, unit I/O
\* (little-endian) and unit station.
C16_FrameCarriesRoute ==
    \A t \in Threads :
        cur[t].sentOn # 0 =>
            IF frame_type = "3E"
            THEN SubSeq(cur[t].frame, 1, 7) =
                     <<80, 0, network_no, pc_no, unit_io % 256, unit_io \div 256,
                       unit_station>>
            ELSE /\ SubSeq(cur[t].frame, 1, 2) = <<84, 0>>
                 /\ SubSeq(cur[t].frame, 7, 8) = <<network_no, pc_no>>
                 /\ SubSeq(cur[t].frame, 11, 13) =
                        <<unit_io % 256, unit_io \div 256, unit_station>>
C16_Witness ==
    /\ cur["caller"].sentOn >= 2
    /\ cur["caller"].call.op = "write_string"
    /\ frame_type = "4E"
    /\ network_no = 1
    /\ SubSeq(cur["caller"].frame, 7, 13) = <<1, 2, 255, 255, 4, 3, 5>>

\* C17: in every request frame of both framings the request data length
\* holds the number of bytes from the first byte of the monitoring timer
\* through the end of the frame.  The timer follows the access route.
C17_TimerOffset ==
    Len(AccessRoute(frame_type, [network_no |-> network_no, pc_no |-> pc_no,
                                 unit_io |-> unit_io, unit_station |-> unit_station]))
C17_LengthField(f) ==
    f[data_length_index(frame_type) + 1] + 256 * f[data_length_index(frame_type) + 2]
C17_LengthCountsFromTimer ==
    \A t \in Threads :
        Built(t) =>
            /\ SubSeq(cur[t].frame, C17_TimerOffset + 1, C17_TimerOffset + 2) = TIMER
            /\ C17_LengthField(cur[t].frame) = Len(cur[t].frame) - C17_TimerOffset

C19_Number(n) == <<n % 256, (n \div 256) % 256, n \div 65536>>
C19_ReadFrameLayout ==
    \A t \in Threads :
        (Built(t) /\ cur[t].op = "read") =>
            IF frame_type = "3E"
            THEN cur[t].frame =
                     <<80, 0, network_no, pc_no, unit_io % 256, unit_io \div 256,
                       unit_station, 12, 0, 32, 0, 1, 4, 0, 0>>
                     \o C19_Number(cur[t].call.device_number)
                     \o <<DEVICE_CODES[cur[t].device_type],
                          cur[t].count % 256, cur[t].count \div 256>>
            ELSE /\ Len(cur[t].frame) = 25
                 /\ SubSeq(cur[t].frame, 16, 17) = <<1, 4>>
                 /\ SubSeq(cur[t].frame, 20, 22) = C19_Number(cur[t].call.device_number)
                 /\ cur[t].frame[23] = DEVICE_CODES[cur[t].device_type]
                 /\ SubSeq(cur[t].frame, 24, 25) =
                        <<cur[t].count % 256, cur[t].count \div 256>>
C19_Witness ==
    /\ Built("caller")
    /\ frame_type = "3E"
    /\ cur["caller"].call.op = "read"
    /\ cur["caller"].call.device_number = 16777215
    /\ cur["caller"].call.count = 960
    /\ SubSeq(cur["caller"].frame, 16, 21) = <<255, 255, 255, 168, 192, 3>>

\* C20: for a string whose UTF-8 encoding has n bytes, the payload of the
\* string-write frame is those n bytes followed by one zero byte if n is odd
\* and by two if n is even, and the element count of the frame is the length
\* of that payload divided by 2.
C20_PayloadStart == IF frame_type = "3E" THEN 21 ELSE 25
C20_StringPayload ==
    \A t \in Threads :
        (Built(t) /\ cur[t].call.op = "write_string") =>
            LET f == cur[t].frame
                str_bytes == encode_utf8(cur[t].call.string_value)
                payload == SubSeq(f, C20_PayloadStart + 1, Len(f))
            IN  /\ payload = str_bytes \o (IF Len(str_bytes) % 2 = 1 THEN <<0>> ELSE <<0, 0>>)
                /\ (f[C20_PayloadStart - 1] + 256 * f[C20_PayloadStart]) * 2 = Len(payload)
C20_Witness ==
    /\ Built("caller")
    /\ frame_type = "3E"
    /\ cur["caller"].call.string_value = <<72, 101, 108, 108, 111>>
    /\ SubSeq(cur["caller"].frame, 20, 27) = <<3, 0, 72, 101, 108, 108, 111, 0>>

\* C21: decoding with parse_string_data the words carried in the payload of
\* the string-write frame built for a string s gives s if s holds no NUL,
\* and otherwise the part of s before its first NUL.
C21_Words(f) ==
    [i \in 1..((Len(f) - C20_PayloadStart) \div 2) |->
        f[C20_PayloadStart + (2 * i) - 1] + (256 * f[C20_PayloadStart + (2 * i)])]
RECURSIVE C21_BeforeNul(_)
C21_BeforeNul(str) ==
    IF str = <<>> \/ Head(str) = 0 THEN <<>>
    ELSE <<Head(str)>> \o C21_BeforeNul(Tail(str))
C21_StringRoundTrip ==
    \A t \in Threads :
        (Built(t) /\ cur[t].call.op = "write_string") =>
            /\ parse_string_data(C21_Words(cur[t].frame)).kind = "ok"
            /\ parse_string_data(C21_Words(cur[t].frame)).text =
                   C21_BeforeNul(cur[t].call.string_value)
C21_Witness ==
    /\ Built("caller")
    /\ cur["caller"].call.string_value = <<233, 0, 65>>
    /\ C21_Words(cur["caller"].frame) = <<43459, 16640, 0>>
    /\ parse_string_data(C21_Words(cur["caller"].frame)).text = <<233>>

\* C22: when a read of count points receives a response that passes the
\* checks of framing and end code and holds at least count values after
\* offset 11 (3E) or 15 (4E), parse_read_response returns exactly count
\* values: for a word class the consecutive little-endian u16s from that
\* offset, for a bit class one boolean per byte, false for 0 and true for
\* every other byte.  A step that takes a response off the stream is the
\* return of recv() in the thread that leaves "recv".
C22_Start == IF frame_type = "3E" THEN 11 ELSE 15
C22_Received(t) == pc[t] = "recv" /\ pc'[t] = "idle" /\ wire' = Tail(wire) /\ wire # <<>>
C22_ParsedValues ==
    [][\A t \in Threads :
          (/\ C22_Received(t)
           /\ cur[t].op = "read"
           /\ lastRx'.out.exc = "ok"
           /\ Len(lastRx'.resp) >= C22_Start + (cur[t].count *
                  (IF is_bit_device(cur[t].device_type) THEN 1 ELSE 2))) =>
              /\ lastRx'.res = "ok"
              /\ Len(lastRx'.data) = cur[t].count
              /\ \A i \in 1..cur[t].count :
                    lastRx'.data[i] =
                        IF is_bit_device(cur[t].device_type)
                        THEN lastRx'.resp[C22_Start + i] # 0
                        ELSE lastRx'.resp[C22_Start + (2 * i) - 1]
                                 + (256 * lastRx'.resp[C22_Start + (2 * i)])]_vars
C22_Witness ==
    /\ lastRx.res = "ok"
    /\ frame_type = "4E"
    /\ Len(lastRx.resp) = 19
    /\ SubSeq(lastRx.resp, 16, 19) = <<0, 1, 1, 0>>
    /\ Len(lastRx.data) = 2
    /\ lastRx.data = <<256, 1>>

\* C23: the frame built for a write of a sequence of u16 values to a word
\* class carries, in both framings, the command 01 14, an element count
\* equal to the number of values, and a payload whose consecutive
\* little-endian u16s are the values written.
C23_WordWrite(t) ==
    /\ Built(t)
    /\ cur[t].call.op \in {"write", "write_words"}
    /\ cur[t].device_type \in WORD_DEVICES
    /\ \A i \in 1..Len(cur[t].call.values) : cur[t].call.values[i] \in 0..65535
C23_Command == IF frame_type = "3E" THEN 11 ELSE 15
C23_Payload == IF frame_type = "3E" THEN 21 ELSE 25
C23_WriteFrameRoundTrip ==
    \A t \in Threads :
        C23_WordWrite(t) =>
            LET f == cur[t].frame
                values == cur[t].call.values
            IN  /\ SubSeq(f, C23_Command + 1, C23_Command + 2) = <<1, 20>>
                /\ f[C23_Payload - 1] + (256 * f[C23_Payload]) = Len(values)
                /\ Len(f) = C23_Payload + (2 * Len(values))
                /\ \A i \in 1..Len(values) :
                      f[C23_Payload + (2 * i) - 1] + (256 * f[C23_Payload + (2 * i)])
                          = values[i]
C23_Witness ==
    /\ C23_WordWrite("caller")
    /\ frame_type = "4E"
    /\ cur["caller"].call.values = <<65535, 4660>>
    /\ SubSeq(cur["caller"].frame, 24, 29) = <<2, 0, 255, 255, 52, 18>>

\* C24: a read or a write whose element count is zero, or exceeds 960 for a
\* word class or 7168 for a bit class, fails with an encoding error: no
\* frame is built for it.
C24_Count(t) == IF cur[t].op = "read" THEN cur[t].count ELSE Len(cur[t].call.values)
C24_CountChecked ==
    \A t \in Threads :
        (Built(t) /\ cur[t].call.op \in {"read", "write"}) =>
            /\ C24_Count(t) >= 1
            /\ C24_Count(t) <= (IF cur[t].device_type \in WORD_DEVICES THEN 960 ELSE 7168)

\* C25: a word write that holds a value outside 0..65535 fails with an
\* encoding error and no frame is built for it, so that no such value is
\* re-encoded into the two payload bytes of a point.
C25_ValueChecked ==
    \A t \in Threads :
        (Built(t) /\ cur[t].call.op = "write" /\ cur[t].device_type \in WORD_DEVICES) =>
            \A i \in 1..Len(cur[t].call.values) : cur[t].call.values[i] \in 0..65535

\* C26, as the spec states it: read_string(class, start, max_chars) issues
\* one word read whose count is the ceiling of (3 * max_chars + 1) / 2, the
\* least count with 2 * count >= 3 * max_chars + 1.
C26_ReadString(t) ==
    /\ Built(t)
    /\ cur[t].call.op = "read_string"
    /\ cur[t].call.max_length >= 1
C26_CountField(f) ==
    IF frame_type = "3E" THEN f[20] + (256 * f[21]) ELSE f[24] + (256 * f[25])
C26_CommandOf(f) == IF frame_type = "3E" THEN SubSeq(f, 12, 15) ELSE SubSeq(f, 16, 19)
C26_CountIsCeilingPlusOne ==
    \A t \in Threads :
        C26_ReadString(t) =>
            /\ 2 * C26_CountField(cur[t].frame) >= (3 * cur[t].call.max_length) + 1
            /\ 2 * (C26_CountField(cur[t].frame) - 1) < (3 * cur[t].call.max_length) + 1

\* C26, amended: the count is the floor of (3 * max_chars + 1) / 2, which is
\* the ceiling of 3 * max_chars / 2: the least count of words that holds
\* max_chars characters of three bytes; the frame is that of a word read
\* and carries the count while it fits its 16 bits (max_chars <= 43690).
C26_CountIsCeiling ==
    \A t \in Threads :
        (C26_ReadString(t) /\ cur[t].call.max_length <= 43690) =>
            /\ C26_CommandOf(cur[t].frame) = <<1, 4, 0, 0>>
            /\ cur[t].device_type \in WORD_DEVICES
            /\ 2 * C26_CountField(cur[t].frame) >= 3 * cur[t].call.max_length
            /\ 2 * (C26_CountField(cur[t].frame) - 1) < 3 * cur[t].call.max_length
C26_Witness ==
    /\ C26_ReadString("caller")
    /\ cur["caller"].call.max_length = 80
    /\ C26_CountField(cur["caller"].frame) = 120
    /\ cur["caller"].sentOn = 1

(***************************************************************************)
(* Claims about the options of a session.                                  *)
(***************************************************************************)
\* C27: an operation on a session that is not connected opens a new TCP
\* connection only if the session was constructed with auto_reconnect
\* enabled: a step of a live session that creates a socket is a step of a
\* session with auto_reconnect set.
C27_ReconnectOnlyIfEnabled ==
    [][(phase = "live" /\ nSock' > nSock) => auto_reconnect]_vars

\* C28: every timeout error an operation of the session raises is also a
\* communication error: an except clause for PlcCommunicationError catches
\* it.
C28_TimeoutIsCommunicationError ==
    \A t \in Threads :
        result[t].why = "socket.timeout" =>
            /\ IsInstance(result[t].exc, "PlcTimeoutError")
            /\ IsInstance(result[t].exc, "PlcCommunicationError")

\* C29: constructing a session opens exactly one connection, to (host, port)
\* and with the configured timeout set on its socket, and leaves the session
\* connected; if the connection fails, construction fails with a
\* communication error and the session is not connected.
C29_Construction ==
    [][(phase = "new" /\ phase' # "new") =>
          /\ nSock = 0 /\ nSock' = 1
          /\ sockOpt' = [timeout |-> timeout, peer |-> endpoint]
          /\ IF phase' = "live"
             THEN connected' /\ sock' = 1 /\ sockUp' /\ result' = result
             ELSE /\ phase' = "failed"
                  /\ ~connected'
                  /\ ~sockUp'
                  /\ result'["caller"].exc = "PlcCommunicationError"]_vars
C29_Witness ==
    /\ phase = "live"
    /\ nOps = 0
    /\ ~closed.called
    /\ connected
    /\ nSock = 1
    /\ timeout = 3
    /\ sockOpt = [timeout |-> 3, peer |-> Endpoint]

(***************************************************************************)
(* Claims about the lists of targets.                                      *)
(***************************************************************************)
\* C30: remove_device(class, number) and remove_devices(class, start, count)
\* return True exactly when a target with those fields is registered; they
\* then remove the earliest inserted such target and leave every other
\* target registered, in the same order; otherwise they return False and
\* change nothing.  The targets of the other kind are never touched.
C30_Matches(list, k, n) ==
    {i \in 1..Len(list) :
        /\ objs[list[i]].device_type = "D"
        /\ objs[list[i]].device_number = n
        /\ (k = "group" => objs[list[i]].count = GroupCount)}
C30_Without(list, i) ==
    [j \in 1..(Len(list) - 1) |-> IF j < i THEN list[j] ELSE list[j + 1]]
C31_ReadsCleared(w) ==
    /\ workers[w].pc \in {"read_point", "read_group"}
    /\ objs[workers[w].obj].cleared
C31_ClearEmptiesAndWorkerSurvives ==
    [][/\ Clear => /\ monitors' = <<>>
                   /\ group_monitors' = <<>>
                   /\ \A w \in DOMAIN workers : workers'[w].pc = workers[w].pc
       /\ \A w \in DOMAIN workers :
             workers[w].pc # "exited" /\ workers'[w].pc = "exited" => ~running
       /\ \A w \in DOMAIN workers :
             (/\ workers[w].pc \in {"for_points", "for_groups"}
              /\ workers'[w].pc \in {"read_point", "read_group"})
                => ~objs[workers'[w].obj].cleared
       /\ \A w \in DOMAIN workers : C31_ReadsCleared(w) => workers[w].dirty]_vars
C31_Witness ==
    /\ monitors = <<>>
    /\ group_monitors = <<>>
    /\ running
    /\ \E w \in DOMAIN workers : C31_ReadsCleared(w) /\ objs[workers[w].obj].kind = "group"

\* C32: at the end of a cycle, every target that was registered when the
\* cycle began and is still registered has been read exactly once in it.
C32_Times(w, id) ==
    Cardinality({i \in DOMAIN workers[w].seen : workers[w].seen[i] = id})
C32_RegisteredTargetsReadOnce ==
    \A w \in DOMAIN workers :
        workers[w].pc = "sleep"
        => \A id \in Registered : id <= workers[w].born => C32_Times(w, id) = 1

(***************************************************************************)
(* stop() and the worker: `while self.running` is the only place where     *)
(* _monitor_loop reads the flag.                                           *)
(***************************************************************************)

\* C33: while the running flag is false, a worker takes no further target
\* from either list to read it and goes through no inter-cycle wait (with
\* an interval of 0 the wait is the branch that does not sleep).
C33_StartsRead(w) ==
    /\ workers[w].pc \in {"for_points", "for_groups"}
    /\ workers'[w].pc \in {"read_point", "read_group"}
C33_NoReadNoSleepAfterStop ==
    [][\A w \in DOMAIN workers :
          ~running => ~C33_StartsRead(w) /\ (interval > 0 => ~Sleep(w))]_vars

(***************************************************************************)
(* One exchange per operation: _send_and_receive has no loop, and the      *)
(* session keeps no frame between two calls.                               *)
(***************************************************************************)

\* C34: a step in which a thread calls sendall leaves it at the receive or
\* ends its operation, a step in which it calls recv ends its operation, a
\* thread past its sendall never comes back to it within the operation, the
\* frame a thread is about to send is the frame of the call it is in, and
\* only a thread's own sendall puts a frame on the socket.
C34_OneSendOneReceive ==
    [][\A t \in Threads :
          /\ (pc[t] = "send" /\ \E io \in IoOutcomes : Send(t, io))
                => pc'[t] \in {"recv", "idle"}
          /\ (pc[t] = "recv" /\ \E io \in IoOutcomes, r \in Responses \cup SharedResponses :
                                    Recv(t, io, r))
                => pc'[t] = "idle"
          /\ pc[t] = "recv" => pc'[t] \in {"recv", "idle"}
          /\ pc'[t] = "send" => cur'[t].frame = BuildFrame(cur'[t].call).frame
          /\ Len(wire') > Len(wire)
                => /\ wire' = Append(wire, wire'[Len(wire')])
                   /\ pc[wire'[Len(wire')]] = "send"]_vars
C34_Witness ==
    \E t \in Threads :
        /\ pc[t] = "recv"
        /\ cur[t].newerThan > 0
        /\ result[t].why \in {"socket.timeout", "socket.error"}

(***************************************************************************)
(* Responses whose payload is shorter than the count read.                 *)
(***************************************************************************)

\* C35: a read whose response passes the check of the minimum length and of
\* the end code but holds fewer payload bytes than its count needs ends with
\* a PlcCommunicationError, for word and for bit devices.
C35_Needed(t) ==
    cur[t].count * (IF is_bit_device(cur[t].device_type) THEN 1 ELSE 2)
C35_ShortPayloadIsCommunicationError ==
    [][\A t \in Threads :
          (/\ pc[t] = "recv" /\ pc'[t] = "idle"
           /\ wire # <<>> /\ wire' = Tail(wire)
           /\ cur[t].op = "read"
           /\ lastRx'.out.exc = "ok"
           /\ Len(lastRx'.resp) < data_start_index(frame_type) + C35_Needed(t))
              => IsInstance(result'[t].exc, "PlcCommunicationError")]_vars

(***************************************************************************)
(* The chain of old and new values of a point target.                      *)
(***************************************************************************)

\* C36: the old value of every callback a worker makes for a point target
\* is the new value of the target's preceding callback, or the first value
\* read for the target if there was none.
C36_OldIsPrecedingNew ==
    [][(/\ ev'.op = "update"
        /\ ev'.calls # <<>>
        /\ objs[ev'.obj].kind = "point")
           => objs[ev'.obj].expect = Some(ev'.calls[1].old)]_vars

(***************************************************************************)
(* Failed reads between two values.                                        *)
(***************************************************************************)

\* C37: a read that fails leaves last_value / last_values as it was, and the
\* first successful read of a worker after failed ones calls the callback
\* exactly once for each value that differs from the value last read, with
\* that value as old, and not at all for a value that does not differ.
C37_Changed(o, new) ==
    IF o.kind = "point" THEN IF o.good.v # new THEN {0} ELSE {}
    ELSE {i \in 0..(o.count - 1) : o.good.v[i + 1] # new[i + 1]}
C37_ChangeAcrossFailuresReportedOnce ==
    [][/\ ev'.op \in {"error", "unexpected"}
             => objs'[ev'.obj].last = objs[ev'.obj].last
       /\ (/\ ev'.op = "update"
           /\ objs[ev'.obj].miss = 1
           /\ objs[ev'.obj].good.some)
             => LET o == objs[ev'.obj]
                    changed == C37_Changed(o, ev'.new)
                IN  /\ Len(ev'.calls) = Cardinality(changed)
                    /\ \A i \in changed :
                          \E k \in DOMAIN ev'.calls :
                             /\ ev'.calls[k].fn = "callback"
                             /\ ev'.calls[k].num = o.device_number + i
                             /\ ev'.calls[k].old =
                                   (IF o.kind = "point" THEN o.good.v ELSE o.good.v[i + 1])
                             /\ ev'.calls[k].new =
                                   (IF o.kind = "point" THEN ev'.new ELSE ev'.new[i + 1])]_vars
C37_Witness ==
    /\ ev.op = "update"
    /\ ev.calls # <<>>
    /\ objs[ev.obj].miss = 2

(***************************************************************************)
(* connected and the socket held.                                          *)
(***************************************************************************)

\* C39: connected implies that self.sock holds a socket, before and after
\* every step; a step of close() leaves no socket and connected false; a
\* step in which a connect fails, or in which a sendall or recv ends an
\* operation with a timeout or a socket error, leaves connected false.
C39_ConnectedHoldsSocket ==
    [][/\ connected => sock # 0
       /\ connected' => sock' # 0
       /\ (\E t \in Threads : Close(t)) => sock' = 0 /\ ~connected'
       /\ (nSock' > nSock /\ ~sockUp') => ~connected'
       /\ \A t \in Threads :
             (/\ pc[t] \in {"send", "recv"}
              /\ pc'[t] = "idle"
              /\ result'[t].why \in {"socket.timeout", "socket.error"}) => ~connected']_vars
C39_Witness ==
    /\ closed.called
    /\ sock = 0
    /\ ~connected
    /\ nSock >= 2
    /\ result["caller"].why = "socket.timeout"

(***************************************************************************)
(* The size of a response and the bytes one recv accepts.                  *)
(***************************************************************************)

\* C38: a read of 1..960 words or 1..7168 bits whose PLC sent a complete
\* response with end code zero returns exactly count values.
C38_Permitted(t) ==
    /\ cur[t].op = "read"
    /\ cur[t].count >= 1
    /\ cur[t].count <= (IF is_bit_device(cur[t].device_type) THEN 7168 ELSE 960)
C38_CompleteResponseGivesCountValues ==
    [][\A t \in Threads :
          (/\ pc[t] = "recv" /\ pc'[t] = "idle"
           /\ wire # <<>> /\ wire' = Tail(wire)
           /\ C38_Permitted(t)
           /\ lastRx'.out.exc = "ok"
           /\ lastRx'.sent = data_start_index(frame_type) +
                  (cur[t].count * (IF is_bit_device(cur[t].device_type) THEN 1 ELSE 2)))
              => /\ result'[t].exc = "ok"
                 /\ Len(lastRx'.data) = cur[t].count]_vars

(***************************************************************************)
(* The values held for a range target.                                     *)
(***************************************************************************)

\* C40: last_values of every range target is None or a list of exactly
\* count values.
C40_RangeLastHasCountValues ==
    \A id \in DOMAIN objs :
        objs[id].kind = "group"
            => ~objs[id].last.some \/ Len(objs[id].last.v) = objs[id].count
C40_Witness ==
    /\ ev.op = "update"
    /\ objs[ev.obj].kind = "group"
    /\ objs[ev.obj].miss = 2
    /\ Len(objs[ev.obj].last.v) = GroupCount

====
